---- MODULE Spec2Model ----
(***************************************************************************)
(* A model of the rule engine, its working memory and its rule compiler.   *)
(* Python strings are sequences of one-character strings, so that the      *)
(* first-character index, grounding, interpolation and parsing are         *)
(* computed on characters as the code computes them.                       *)
(***************************************************************************)
EXTENDS Integers, Sequences, FiniteSets, TLC

VARIABLES
    rules,                      \* RuleEngine.rules (a list, shuffled in place)
    domain,                     \* RuleEngine.domain: entity type -> list of entities, in key order
    facts,                      \* WorkingMemory.facts
    facts_by_first_character,   \* WorkingMemory._facts_by_first_character
    actions,                    \* RuleEngine.actions
    module_attrs,               \* attributes "_<role>" set on the engine module by setattr
    shuffle_randomly,           \* RuleEngine.shuffle_randomly
    raised,                     \* the exception the last call ended with, "" when it returned
    op,                         \* the last call and its arguments
    pre,                        \* the working-memory store as it was when the last call began
    fire_log,                   \* for every recorded Action: the firing that recorded it
    compiled,                   \* the result of the last compiler call
    grammar,                    \* the GrammarEngine and its running generate call
    runs                        \* two runs of the program from the same seed and inputs

vars == <<rules, domain, facts, facts_by_first_character, actions, module_attrs,
          shuffle_randomly, raised, op, pre, fire_log, compiled, grammar, runs>>

(***************************************************************************)
(* Strings                                                                 *)
(***************************************************************************)
Whitespace == {" ", "\t", "\n"}

\* str.strip() leaves nothing: every character is whitespace
IsBlank(s) == \A i \in 1..Len(s) : s[i] \in Whitespace

RECURSIVE JoinWith(_, _)
\* sep.join(parts)
JoinWith(parts, sep) ==
    IF parts = <<>> THEN <<>>
    ELSE IF Len(parts) = 1 THEN parts[1]
    ELSE parts[1] \o sep \o JoinWith(Tail(parts), sep)

Contains(s, x) == \E i \in 1..Len(s) : s[i] = x

RECURSIVE RemoveFirst(_, _)
\* list.remove(x) on a list that holds x: the first occurrence goes
RemoveFirst(s, x) ==
    IF s = <<>> THEN <<>>
    ELSE IF Head(s) = x THEN Tail(s)
    ELSE <<Head(s)>> \o RemoveFirst(Tail(s), x)

Range(s) == {s[i] : i \in 1..Len(s)}

Count(s, x) == Cardinality({i \in 1..Len(s) : s[i] = x})

(***************************************************************************)
(* Value types: Entity, Role, Predicate, OrExpression                      *)
(***************************************************************************)
This == <<"T", "h", "i", "s">>

\* the entity type of the entities _spawn_action creates
ActionType == <<"A", "c", "t", "i", "o", "n">>

\* Entity: objects are compared by identity, so each carries the place it was created at
Entity(id, name, entity_type) == [id |-> id, name |-> name, type |-> entity_type]

\* Role.__init__; a recipe of <<>> is the default (falsy) entity_name_recipe
Role(name, entity_type, optional, entity_name_recipe) ==
    [name |-> name,
     entity_type |-> entity_type,
     action_self_reference |-> (name = This),
     entity_name_recipe |-> entity_name_recipe,
     required |-> (~optional) /\ (name # This) /\ (entity_name_recipe = <<>>)]

NoRole == Role(<<>>, <<>>, TRUE, <<>>)

\* the two kinds of template element: a literal word (a str) and a Role
Lit(text) == [isrole |-> FALSE, text |-> text, role |-> NoRole]
Ref(role) == [isrole |-> TRUE, text |-> role.name, role |-> role]

\* Predicate.__init__
Predicate(template, negated) ==
    [or_expression |-> FALSE, negated |-> negated, template |-> template, conditions |-> <<>>]

\* OrExpression.__init__ : negated is always False at construction
OrExpression(conditions) ==
    [or_expression |-> TRUE, negated |-> FALSE, template |-> <<>>, conditions |-> conditions]

\* Predicate.optional_roles
PredOptionalRoles(p) ==
    \E i \in 1..Len(p.template) :
        /\ p.template[i].isrole
        /\ ~p.template[i].role.required
        /\ ~p.template[i].role.action_self_reference

\* Predicate.required_roles, as the set of their names
PredRequiredRoles(p) ==
    {p.template[i].text : i \in {j \in 1..Len(p.template) :
                                    p.template[j].isrole /\ p.template[j].role.required}}

\* condition.optional_roles of a Predicate or an OrExpression
OptionalRoles(c) ==
    IF c.or_expression
    THEN \E i \in 1..Len(c.conditions) : PredOptionalRoles(c.conditions[i])
    ELSE PredOptionalRoles(c)

\* condition.required_roles of a Predicate or an OrExpression
RequiredRoles(c) ==
    IF c.or_expression
    THEN UNION {PredRequiredRoles(c.conditions[i]) : i \in 1..Len(c.conditions)}
    ELSE PredRequiredRoles(c)

\* whether grounding the template raises KeyError: a role with no entity bound
Ungrounded(p, bindings) ==
    \E i \in 1..Len(p.template) :
        p.template[i].isrole /\ p.template[i].text \notin DOMAIN bindings

\* Predicate.ground
ground(p, bindings) ==
    JoinWith([i \in 1..Len(p.template) |->
                 IF p.template[i].isrole
                 THEN bindings[p.template[i].text].name
                 ELSE p.template[i].text],
             <<" ">>)

(***************************************************************************)
(* WorkingMemory                                                           *)
(***************************************************************************)
\* a store: the fact set and its first-character index
Store(fs, idx) == [facts |-> fs, idx |-> idx]

EmptyStore == Store({}, <<>>)

\* WorkingMemory._facts_starting_with
facts_starting_with(wm, character) ==
    IF character \in DOMAIN wm.idx THEN wm.idx[character] ELSE <<>>

\* IndexAppend without the except branch that starts a bucket
IndexAppend_NoNewBucket(idx, fact) ==
    IF fact[1] \in DOMAIN idx
    THEN [idx EXCEPT ![fact[1]] = Append(@, fact)]
    ELSE idx

\* self._facts_by_first_character[fact[0]].append(fact), or a new bucket on KeyError
IndexAppend(idx, fact) ==
    IF fact[1] \in DOMAIN idx
    THEN [idx EXCEPT ![fact[1]] = Append(@, fact)]
    ELSE idx @@ (fact[1] :> <<fact>>)

\* the outcome of a working-memory call: the store it leaves and the exception it raised
Outcome(wm, err) == [wm |-> wm, err |-> err]

\* WorkingMemory.add_grounded_fact
add_grounded_fact(wm, fact) ==
    IF fact = <<>> THEN Outcome(wm, "IndexError")
    ELSE IF fact[1] = "*" THEN Outcome(wm, "Exception")
    ELSE Outcome(Store(wm.facts \cup {fact}, IndexAppend(wm.idx, fact)), "")

\* WorkingMemory.add
add(wm, predicate, bindings) ==
    IF Ungrounded(predicate, bindings) THEN Outcome(wm, "")
    ELSE LET fact == ground(predicate, bindings)
         IN  IF IsBlank(fact) THEN Outcome(wm, "")
             ELSE Outcome(Store(wm.facts \cup {fact}, IndexAppend(wm.idx, fact)), "")

\* delete that takes the fact out of the fact set and leaves the index as it is
delete_LeavesIndex(wm, predicate, bindings) ==
    IF Ungrounded(predicate, bindings) THEN Outcome(wm, "KeyError")
    ELSE Outcome(Store(wm.facts \ {ground(predicate, bindings)}, wm.idx), "")

\* WorkingMemory.delete
delete(wm, predicate, bindings) ==
    IF Ungrounded(predicate, bindings) THEN Outcome(wm, "KeyError")
    ELSE LET fact == ground(predicate, bindings)
         IN  IF fact \notin wm.facts THEN Outcome(wm, "")
             ELSE IF fact[1] \notin DOMAIN wm.idx
                  THEN Outcome(Store(wm.facts \ {fact}, wm.idx), "KeyError")
             ELSE IF ~Contains(wm.idx[fact[1]], fact)
                  THEN Outcome(Store(wm.facts \ {fact}, wm.idx), "ValueError")
             ELSE Outcome(Store(wm.facts \ {fact},
                                [wm.idx EXCEPT ![fact[1]] = RemoveFirst(@, fact)]), "")

\* WorkingMemory.has_fact
has_fact(wm, fact) == fact \in wm.facts

RECURSIVE MatchHere(_, _)
RECURSIVE MatchStar(_, _, _)
\* re.match of a pattern made of literal characters, '.' and 'c*': some prefix of s matches
MatchHere(pattern, s) ==
    IF pattern = <<>> THEN TRUE
    ELSE IF Len(pattern) >= 2 /\ pattern[2] = "*"
         THEN MatchStar(pattern[1], SubSeq(pattern, 3, Len(pattern)), s)
    ELSE IF s # <<>> /\ (pattern[1] = "." \/ pattern[1] = s[1])
         THEN MatchHere(Tail(pattern), Tail(s))
    ELSE FALSE

MatchStar(c, pattern, s) ==
    \/ MatchHere(pattern, s)
    \/ s # <<>> /\ (c = "." \/ c = s[1]) /\ MatchStar(c, pattern, Tail(s))

\* the plain-predicate part of WorkingMemory.holds, for a predicate that grounds
HoldsPlain(wm, condition, bindings) ==
    LET ground_expression == ground(condition, bindings)
        facts_pool == IF ground_expression[1] # "*"
                      THEN Range(facts_starting_with(wm, ground_expression[1]))
                      ELSE wm.facts
        is_regex == Contains(ground_expression, "*")
        pattern == IF ground_expression[1] = "*" THEN <<".">> \o ground_expression
                   ELSE ground_expression
        match == \E fact \in facts_pool :
                    IF is_regex THEN MatchHere(pattern, fact) ELSE ground_expression = fact
    IN  IF condition.negated THEN ~match ELSE match

\* the result of holds: the value returned, or the exception raised
Returned(val) == [err |-> "", val |-> val]
Raised(err) == [err |-> err, val |-> FALSE]

\* holds on a plain predicate
HoldsPredicate(wm, condition, bindings) ==
    IF Ungrounded(condition, bindings) THEN Raised("KeyError")
    ELSE IF ground(condition, bindings) = <<>> THEN Raised("IndexError")
    ELSE Returned(HoldsPlain(wm, condition, bindings))

RECURSIVE HoldsOr_FalseWhenNoneHolds(_, _, _, _)
\* HoldsOr that returns False after the loop whatever the negated flag
HoldsOr_FalseWhenNoneHolds(wm, condition, bindings, i) ==
    IF i > Len(condition.conditions)
    THEN Returned(FALSE)
    ELSE LET sub == HoldsPredicate(wm, condition.conditions[i], bindings)
         IN  IF sub.err # "" THEN sub
             ELSE IF sub.val THEN Returned(~condition.negated)
             ELSE HoldsOr_FalseWhenNoneHolds(wm, condition, bindings, i + 1)

RECURSIVE HoldsOr(_, _, _, _)
\* the OR branch of holds, from subcondition i on: the first disjunct that holds decides
HoldsOr(wm, condition, bindings, i) ==
    IF i > Len(condition.conditions)
    THEN Returned(condition.negated)
    ELSE LET sub == HoldsPredicate(wm, condition.conditions[i], bindings)
         IN  IF sub.err # "" THEN sub
             ELSE IF sub.val THEN Returned(~condition.negated)
             ELSE HoldsOr(wm, condition, bindings, i + 1)

\* WorkingMemory.holds
holds(wm, condition, bindings) ==
    IF condition.or_expression
    THEN HoldsOr(wm, condition, bindings, 1)
    ELSE HoldsPredicate(wm, condition, bindings)

(***************************************************************************)
(* Rules, the domain and string interpolation                              *)
(***************************************************************************)
\* None, for the empty branch of a ternary effect
None == [none |-> TRUE]

\* TernaryExpression.__init__
TernaryExpression(condition, effect_if_true, effect_if_false) ==
    [or_expression |-> FALSE, ternary_expression |-> TRUE, condition |-> condition,
     effect_if_true |-> effect_if_true, effect_if_false |-> effect_if_false]

\* effect.ternary_expression: a Predicate carries False
IsTernary(effect) == "ternary_expression" \in DOMAIN effect

\* ResponseAction.__init__; action_bindings maps a target role to a source role
ResponseAction(action_name, action_bindings) ==
    [action_name |-> action_name, action_bindings |-> action_bindings]

\* Rule.__init__; probability is in hundredths
Rule(action_name, response_action, action_string, probability, roles, preconditions, effects, response_actions) ==
    [action_name |-> action_name, response_action |-> response_action,
     action_string |-> action_string, probability |-> probability, roles |-> roles,
     preconditions |-> preconditions, effects |-> effects,
     response_actions |-> response_actions]

\* Action.__init__
Action(action_name, action_string, bindings) ==
    [name |-> action_name, string |-> action_string, bindings |-> bindings]

\* Action.entities
ActionEntities(action) == {action.bindings[r] : r \in DOMAIN action.bindings}

\* entity_type in self.domain
HasType(dom, entity_type) == \E i \in 1..Len(dom) : dom[i].type = entity_type

\* self.domain[entity_type], for a type that is in the domain
DomainGet(dom, entity_type) ==
    dom[CHOOSE i \in 1..Len(dom) : dom[i].type = entity_type].entities

\* self.domain[entity.type].append(entity), or a new list under a new key
DomainAppend(dom, entity) ==
    IF HasType(dom, entity.type)
    THEN [i \in 1..Len(dom) |->
             IF dom[i].type = entity.type
             THEN [dom[i] EXCEPT !.entities = Append(@, entity)]
             ELSE dom[i]]
    ELSE Append(dom, [type |-> entity.type, entities |-> <<entity>>])

RECURSIVE EntitiesFrom(_, _)
EntitiesFrom(dom, i) ==
    IF i > Len(dom) THEN <<>> ELSE dom[i].entities \o EntitiesFrom(dom, i + 1)

\* RuleEngine.entities
Entities(dom) == EntitiesFrom(dom, 1)

\* the identity of the next object created: entities are never destroyed
NewId(dom) == Len(Entities(dom)) + 1

RECURSIVE Escape(_)
\* str.replace("'", "\\'").replace('"', '\\"')
Escape(s) ==
    IF s = <<>> THEN <<>>
    ELSE IF Head(s) \in {"'", "\""} THEN <<"\\", Head(s)>> \o Escape(Tail(s))
    ELSE <<Head(s)>> \o Escape(Tail(s))

RECURSIVE Underscore(_)
\* str.replace("{", "{_")
Underscore(s) ==
    IF s = <<>> THEN <<>>
    ELSE IF Head(s) = "{" THEN <<"{", "_">> \o Underscore(Tail(s))
    ELSE <<Head(s)>> \o Underscore(Tail(s))

\* setattr(this_module, "_" + role_name, escaped entity name), for every binding
SetAttrs(attrs, bindings) ==
    [a \in DOMAIN attrs \cup {<<"_">> \o r : r \in DOMAIN bindings} |->
        IF \E r \in DOMAIN bindings : a = <<"_">> \o r
        THEN Escape(bindings[CHOOSE r \in DOMAIN bindings : a = <<"_">> \o r].name)
        ELSE attrs[a]]

\* the position of the first c in s from position i on, 0 when there is none
RECURSIVE Find(_, _, _)
Find(s, c, i) ==
    IF i > Len(s) THEN 0 ELSE IF s[i] = c THEN i ELSE Find(s, c, i + 1)

Evaluated(text) == [err |-> "", text |-> text]
EvalError(err) == [err |-> err, text |-> <<>>]

RECURSIVE FString(_, _)
\* eval("f'" + body + "'"): a backslash escapes the character after it, a quote that
\* is not escaped ends the literal early, {name} reads the module attribute name
FString(body, attrs) ==
    IF body = <<>> THEN Evaluated(<<>>)
    ELSE IF Head(body) = "'" THEN EvalError("SyntaxError")
    ELSE IF Head(body) = "\\"
         THEN IF Len(body) < 2 THEN EvalError("SyntaxError")
              ELSE LET rest == FString(SubSeq(body, 3, Len(body)), attrs)
                   IN  IF rest.err # "" THEN rest ELSE Evaluated(<<body[2]>> \o rest.text)
    ELSE IF Head(body) = "{"
         THEN LET close == Find(body, "}", 2)
              IN  IF close = 0 THEN EvalError("SyntaxError")
                  ELSE LET name == SubSeq(body, 2, close - 1)
                           rest == FString(SubSeq(body, close + 1, Len(body)), attrs)
                       IN  IF name \notin DOMAIN attrs THEN EvalError("NameError")
                           ELSE IF rest.err # "" THEN rest
                           ELSE Evaluated(attrs[name] \o rest.text)
    ELSE LET rest == FString(Tail(body), attrs)
         IN  IF rest.err # "" THEN rest ELSE Evaluated(<<Head(body)>> \o rest.text)

Digits == <<"0", "1", "2", "3", "4", "5", "6", "7", "8", "9">>

RECURSIVE Str(_)
\* str(n) of a natural number
Str(n) == IF n < 10 THEN <<Digits[n + 1]>> ELSE Str(n \div 10) \o <<Digits[(n % 10) + 1]>>

\* f"{base_entity_name} ({suffix})"
Suffixed(base_entity_name, suffix) == base_entity_name \o <<" ", "(">> \o Str(suffix) \o <<")">>

\* any(entity for entity in self.entities if entity.name == name)
NameTaken(dom, name) == \E i \in 1..Len(Entities(dom)) : Entities(dom)[i].name = name

\* UniqueName without the while loop: the name is the one the recipe yields
UniqueName_AsResolved(dom, base_entity_name, suffix) == base_entity_name

RECURSIVE UniqueName(_, _, _)
\* the while loop of _bind_entity_creation_role, entered with suffix = 0
UniqueName(dom, base_entity_name, suffix) ==
    LET resolved_entity_name == IF suffix = 0 THEN base_entity_name
                                ELSE Suffixed(base_entity_name, suffix)
    IN  IF NameTaken(dom, resolved_entity_name)
        THEN UniqueName(dom, base_entity_name, suffix + 1)
        ELSE resolved_entity_name

(***************************************************************************)
(* RuleEngine: firing                                                      *)
(***************************************************************************)
\* the sequences of values random.random() may return during one attempt
MaxDraws == 4
DrawValues == {0, 99}
DrawSeqs == [1..MaxDraws -> DrawValues]

\* The engine while a call runs: st.err is the exception that is propagating ("" for
\* none), st.k the number of random.random() draws made, st.log the firing behind
\* each recorded Action (the index of the parent's Action, 0 for a top-level firing,
\* and the place of the response among the parent's declarations), st.drew the
\* draws the rule loop of the attempt made, st.rnd the sequences of values the random
\* module may return from where it stands.
EngineState(rs, dom, wm, acts, attrs, log) ==
    [rules |-> rs, domain |-> dom, wm |-> wm, actions |-> acts, attrs |-> attrs,
     err |-> "", k |-> 0, log |-> log, drew |-> <<>>, rnd |-> DrawSeqs]

Raise(st, err) == [st EXCEPT !.err = err]

\* the engine after one more random.random() draw
Drawn(st) == [st EXCEPT !.k = @ + 1]

\* s[1:-1]
StripEnds(s) == SubSeq(s, 2, Len(s) - 1)

\* bindings[role_name] = entity
Bind(bindings, role_name, entity) == (role_name :> entity) @@ bindings

\* lines 309-323 of _spawn_action, given the module attributes it set and what eval
\* returned
spawn_resolved(st, rule, bindings, attrs, resolved) ==
    IF resolved.err # ""
    THEN [st |-> [st EXCEPT !.attrs = attrs, !.err = resolved.err], bindings |-> bindings]
    ELSE [st |-> [st EXCEPT
                     !.attrs = attrs,
                     !.domain = DomainAppend(@, Entity(NewId(st.domain),
                                                       StripEnds(resolved.text), ActionType)),
                     !.actions = Append(@, Action(rule.action_name, StripEnds(resolved.text),
                                                  Bind(bindings, This,
                                                       Entity(NewId(st.domain),
                                                              StripEnds(resolved.text),
                                                              ActionType))))],
          bindings |-> Bind(bindings, This,
                            Entity(NewId(st.domain), StripEnds(resolved.text), ActionType))]

\* RuleEngine._spawn_action: the engine, and the bindings with This added
spawn_action(st, rule, bindings) ==
    spawn_resolved(st, rule, bindings, SetAttrs(st.attrs, bindings),
                   FString(Underscore(rule.action_string), SetAttrs(st.attrs, bindings)))

\* the engine after a working-memory call made by _fire
apply_outcome(st, outcome) == [st EXCEPT !.wm = outcome.wm, !.err = outcome.err]

\* apply_chosen that adds nothing: only a negated effect changes the store
apply_chosen_AddsNothing(st, effect, bindings) ==
    IF effect = None THEN st
    ELSE IF effect.negated THEN apply_outcome(st, delete(st.wm, effect, bindings))
    ELSE st

\* lines 272-277 of _fire: an empty effect is skipped, a negated one deleted, any
\* other added
apply_chosen(st, effect, bindings) ==
    IF effect = None THEN st
    ELSE apply_outcome(st, IF effect.negated THEN delete(st.wm, effect, bindings)
                           ELSE add(st.wm, effect, bindings))

\* lines 268-273 of _fire, given what holds returned for the ternary's condition
apply_ternary(st, effect, bindings, cond) ==
    IF cond.err # "" THEN Raise(st, cond.err)
    ELSE apply_chosen(st, IF cond.val THEN effect.effect_if_true ELSE effect.effect_if_false,
                      bindings)

\* one round of the effects loop of _fire
apply_effect(st, effect, bindings) ==
    IF IsTernary(effect)
    THEN apply_ternary(st, effect, bindings, holds(st.wm, effect.condition, bindings))
    ELSE apply_chosen(st, effect, bindings)

RECURSIVE apply_effects_Reversed(_, _, _, _)
\* the effects loop run over reversed(rule.effects)
apply_effects_Reversed(st, rule, bindings, i) ==
    IF st.err # "" \/ i > Len(rule.effects) THEN st
    ELSE apply_effects_Reversed(
             apply_effect(st, rule.effects[Len(rule.effects) + 1 - i], bindings),
             rule, bindings, i + 1)

RECURSIVE apply_effects(_, _, _, _)
\* the effects loop of _fire, from effect i on
apply_effects(st, rule, bindings, i) ==
    IF st.err # "" \/ i > Len(rule.effects) THEN st
    ELSE apply_effects(apply_effect(st, rule.effects[i], bindings), rule, bindings, i + 1)

RECURSIVE TriggersFrom(_, _, _, _, _)
\* one round of the loop of _triggers, given what holds returned for precondition i
TriggersNext(wm, rule, bindings, ignore, i, h) ==
    IF h.err # "" \/ ~h.val THEN h
    ELSE TriggersFrom(wm, rule, bindings, ignore, i + 1)

\* the loop of _triggers from precondition i on; ignore holds the places of the
\* preconditions in preconditions_to_ignore
TriggersFrom(wm, rule, bindings, ignore, i) ==
    IF i > Len(rule.preconditions) THEN Returned(TRUE)
    ELSE IF i \in ignore \/ OptionalRoles(rule.preconditions[i])
         THEN TriggersFrom(wm, rule, bindings, ignore, i + 1)
    ELSE TriggersNext(wm, rule, bindings, ignore, i,
                      holds(wm, rule.preconditions[i], bindings))

\* RuleEngine._triggers
triggers(wm, rule, bindings, ignore) == TriggersFrom(wm, rule, bindings, ignore, 1)

\* the value the next random.random() of the attempt returns, in hundredths; draws
\* holds the values it returns, in order
NextDraw(st, draws) == IF st.k < Len(draws) THEN draws[st.k + 1] ELSE 100

\* random.random() < probability, for the next draw of the attempt
DrawPasses(st, draws, probability) == NextDraw(st, draws) < probability

\* the record of an Action's firing: the Action it responds to (its place in the
\* actions list, 0 for none) and its place among the responses declared
Fired(parent, decl) == [kind |-> "fire", parent |-> parent, decl |-> decl]

\* the record of a response's test: the Action responded to, the place of the response
\* among those declared, the bindings passed, what _triggers returned and the value
\* drawn (-1 when none was)
Tried(parent, decl, bindings, triggered, draw) ==
    [kind |-> "try", parent |-> parent, decl |-> decl, bindings |-> bindings,
     triggered |-> triggered, draw |-> draw]

Logged(st, event) == [st EXCEPT !.log = Append(@, event)]

\* next(rule for rule in self.rules if rule.action_name == action_name)
RuleNamed(rs, action_name) == rs[CHOOSE i \in 1..Len(rs) : rs[i].action_name = action_name]

\* lines 285-287 of _fire: the bindings passed to the response's rule
ResponseBindings(response_action, bindings) ==
    [target_role \in DOMAIN response_action.action_bindings |->
        bindings[response_action.action_bindings[target_role]]]

\* whether line 287 of _fire raises KeyError: a source role with no entity bound
ResponseUnbound(response_action, bindings) ==
    \E target_role \in DOMAIN response_action.action_bindings :
        response_action.action_bindings[target_role] \notin DOMAIN bindings

RECURSIVE fire(_, _, _, _, _, _)
RECURSIVE test_responses(_, _, _, _, _, _)
\* lines 262-299 of _fire, given what _spawn_action returned; the Action recorded is
\* logged with the Action it responds to (parent, 0 for none) and its place among the
\* responses declared (decl)
fire_spawned(spawned, rule, parent, decl, draws) ==
    IF spawned.st.err # "" THEN spawned.st
    ELSE test_responses(
             apply_effects(Logged(spawned.st, Fired(parent, decl)), rule, spawned.bindings, 1),
             rule, spawned.bindings, 1, Len(spawned.st.actions), draws)

\* the number of nested _fire calls the interpreter allows before it raises
\* RecursionError (sys.getrecursionlimit(), less the frames below the first _fire)
RecursionLimit == 3

RECURSIVE Depth(_, _)
\* the number of _fire calls in progress when the Action at place parent tests its
\* responses: its own and those of the Actions it responds to, directly or not
Depth(log, parent) ==
    IF parent = 0 THEN 0
    ELSE 1 + Depth(log, SelectSeq(log, LAMBDA event : event.kind = "fire")[parent].parent)

\* RuleEngine._fire
fire(st, rule, bindings, parent, decl, draws) ==
    IF Depth(st.log, parent) >= RecursionLimit THEN Raise(st, "RecursionError")
    ELSE fire_spawned(spawn_action(st, rule, bindings), rule, parent, decl, draws)

\* test_response that fires no response: a draw that passes is only counted
test_response_NeverFires(st, rule, bindings, i, self, draws, t) ==
    IF t.err # "" THEN Raise(st, t.err)
    ELSE test_responses(
             IF ~t.val
             THEN Logged(st, Tried(self, i, ResponseBindings(rule.response_actions[i], bindings),
                                   FALSE, -1))
             ELSE Drawn(Logged(st, Tried(self, i,
                                         ResponseBindings(rule.response_actions[i], bindings),
                                         TRUE, NextDraw(st, draws)))),
             rule, bindings, i + 1, self, draws)

\* test_response that draws against the probability of the response's own rule
test_response_OwnProbability(st, rule, bindings, i, self, draws, t) ==
    IF t.err # "" THEN Raise(st, t.err)
    ELSE test_responses(
             IF ~t.val
             THEN Logged(st, Tried(self, i, ResponseBindings(rule.response_actions[i], bindings),
                                   FALSE, -1))
             ELSE IF DrawPasses(st, draws,
                                RuleNamed(st.rules,
                                          rule.response_actions[i].action_name).probability)
                  THEN fire(Drawn(Logged(st, Tried(self, i,
                                                   ResponseBindings(rule.response_actions[i],
                                                                    bindings),
                                                   TRUE, NextDraw(st, draws)))),
                            RuleNamed(st.rules, rule.response_actions[i].action_name),
                            ResponseBindings(rule.response_actions[i], bindings),
                            self, i, draws)
             ELSE Drawn(Logged(st, Tried(self, i,
                                         ResponseBindings(rule.response_actions[i], bindings),
                                         TRUE, NextDraw(st, draws)))),
             rule, bindings, i + 1, self, draws)

\* lines 289-299 of _fire for declared response i, given what _triggers returned: the
\* draw is against the probability of the rule that is firing
test_response(st, rule, bindings, i, self, draws, t) ==
    IF t.err # "" THEN Raise(st, t.err)
    ELSE test_responses(
             IF ~t.val
             THEN Logged(st, Tried(self, i, ResponseBindings(rule.response_actions[i], bindings),
                                   FALSE, -1))
             ELSE IF DrawPasses(st, draws, rule.probability)
                  THEN fire(Drawn(Logged(st, Tried(self, i,
                                                   ResponseBindings(rule.response_actions[i],
                                                                    bindings),
                                                   TRUE, NextDraw(st, draws)))),
                            RuleNamed(st.rules, rule.response_actions[i].action_name),
                            ResponseBindings(rule.response_actions[i], bindings),
                            self, i, draws)
             ELSE Drawn(Logged(st, Tried(self, i,
                                         ResponseBindings(rule.response_actions[i], bindings),
                                         TRUE, NextDraw(st, draws)))),
             rule, bindings, i + 1, self, draws)

\* the responses of the rule in the reverse of their declaration order
LastDeclaredFirst(rule) ==
    [rule EXCEPT !.response_actions =
        [j \in 1..Len(rule.response_actions) |->
            rule.response_actions[Len(rule.response_actions) + 1 - j]]]

\* test_responses that starts the loop from the response declared last
test_responses_Reversed(st, rule, bindings, i, self, draws) ==
    IF st.err # "" \/ i > Len(rule.response_actions) THEN st
    ELSE IF i = 1 /\ Len(rule.response_actions) > 1
         THEN test_responses(st, LastDeclaredFirst(rule), bindings, 2, self, draws)
    ELSE IF ResponseUnbound(rule.response_actions[i], bindings) THEN Raise(st, "KeyError")
    ELSE test_response(st, rule, bindings, i, self, draws,
                       triggers(st.wm,
                                RuleNamed(st.rules, rule.response_actions[i].action_name),
                                ResponseBindings(rule.response_actions[i], bindings), {}))

\* the response loop of _fire, from declared response i on; self is the place of the
\* firing rule's Action in the actions list
test_responses(st, rule, bindings, i, self, draws) ==
    IF st.err # "" \/ i > Len(rule.response_actions) THEN st
    ELSE IF ResponseUnbound(rule.response_actions[i], bindings) THEN Raise(st, "KeyError")
    ELSE test_response(st, rule, bindings, i, self, draws,
                       triggers(st.wm,
                                RuleNamed(st.rules, rule.response_actions[i].action_name),
                                ResponseBindings(rule.response_actions[i], bindings), {}))

(***************************************************************************)
(* RuleEngine: one attempt                                                 *)
(***************************************************************************)
\* every order random.shuffle can leave a list in
PermsOf(s) ==
    {[i \in 1..Len(s) |-> s[p[i]]] :
        p \in {q \in [1..Len(s) -> 1..Len(s)] : \A i, j \in 1..Len(s) : q[i] = q[j] => i = j}}

RECURSIVE constant_preconditions_hold(_, _, _)
\* one round of the inner loop of _prune_rules_pool, given what holds returned
constant_preconditions_next(wm, rule, i, h) ==
    IF h.err # "" \/ ~h.val THEN h
    ELSE constant_preconditions_hold(wm, rule, i + 1)

\* the inner loop of _prune_rules_pool, from precondition i on: whether no role-less
\* precondition of the rule fails
constant_preconditions_hold(wm, rule, i) ==
    IF i > Len(rule.preconditions) THEN Returned(TRUE)
    ELSE IF RequiredRoles(rule.preconditions[i]) # {} \/ OptionalRoles(rule.preconditions[i])
         THEN constant_preconditions_hold(wm, rule, i + 1)
    ELSE constant_preconditions_next(wm, rule, i, holds(wm, rule.preconditions[i], <<>>))

\* the rules kept by _prune_rules_pool from rule i on, given whether rule i is kept
\* and the rules kept after it
prune_rules_next(rule, kept, rest) ==
    IF kept.err # "" THEN [err |-> kept.err, rules |-> <<>>]
    ELSE IF rest.err # "" \/ ~kept.val THEN rest
    ELSE [err |-> "", rules |-> <<rule>> \o rest.rules]

RECURSIVE prune_rules_from(_, _, _)
\* RuleEngine._prune_rules_pool, from rule i on: the rules kept, or the exception
prune_rules_from(wm, rs, i) ==
    IF i > Len(rs) THEN [err |-> "", rules |-> <<>>]
    ELSE prune_rules_next(rs[i], constant_preconditions_hold(wm, rs[i], 1),
                          prune_rules_from(wm, rs, i + 1))

\* RuleEngine._prune_rules_pool
prune_rules_pool(wm, rs) == prune_rules_from(wm, rs, 1)

\* RuleEngine._get_preconditions_to_ignore, as the places of those preconditions
get_preconditions_to_ignore(rule) ==
    {i \in 1..Len(rule.preconditions) :
        /\ Cardinality(RequiredRoles(rule.preconditions[i])) = 1
        /\ ~OptionalRoles(rule.preconditions[i])}

\* the preconditions _prune_role_candidate_pool tests the candidates of a role with
PruningPreconditions(rule, role) ==
    {i \in get_preconditions_to_ignore(rule) : role.name \in RequiredRoles(rule.preconditions[i])}

\* the pool _prune_role_candidate_pool returns, given what holds returned for each
\* precondition it tests and each candidate
prune_by(candidate_pool, results) ==
    IF \E t \in DOMAIN results : results[t].err # ""
    THEN [err |-> results[CHOOSE t \in DOMAIN results : results[t].err # ""].err,
          pool |-> <<>>]
    ELSE [err |-> "",
          pool |-> SelectSeq(candidate_pool, LAMBDA e :
                       \A t \in DOMAIN results : candidate_pool[t[2]] = e => results[t].val)]

\* _prune_role_candidate_pool that removes no candidate
prune_role_candidate_pool_KeepsAll(wm, rule, role, candidate_pool) ==
    [err |-> "", pool |-> candidate_pool]

\* RuleEngine._prune_role_candidate_pool: the pruned pool, or the exception
prune_role_candidate_pool(wm, rule, role, candidate_pool) ==
    prune_by(candidate_pool,
             [t \in PruningPreconditions(rule, role) \X (1..Len(candidate_pool)) |->
                 holds(wm, rule.preconditions[t[1]], (role.name :> candidate_pool[t[2]]))])

\* required_roles_in_order of _compile_candidate_bindings
RequiredRolesInOrder(rule) ==
    SelectSeq(rule.roles, LAMBDA role : role.required /\ ~role.action_self_reference)

\* the candidate pools from role i on, given the pruned pool of role i and the pools
\* after it
CandidatePoolsNext(pruned, rest) ==
    IF pruned.err # "" THEN [err |-> pruned.err, empty |-> FALSE, pools |-> <<>>]
    ELSE IF pruned.pool = <<>> THEN [err |-> "", empty |-> TRUE, pools |-> <<>>]
    ELSE IF rest.err # "" \/ rest.empty THEN rest
    ELSE [err |-> "", empty |-> FALSE, pools |-> <<pruned.pool>> \o rest.pools]

RECURSIVE CandidatePools(_, _, _, _)
\* the pruned candidate pool of each required role from role i on; empty is set
\* when a role cannot be filled, which ends the generator with no bindings
CandidatePools(st, rule, required, i) ==
    IF i > Len(required) THEN [err |-> "", empty |-> FALSE, pools |-> <<>>]
    ELSE CandidatePoolsNext(
             prune_role_candidate_pool(st.wm, rule, required[i],
                                       DomainGet(st.domain, required[i].entity_type)),
             CandidatePools(st, rule, required, i + 1))

RECURSIVE Shuffles(_, _)
\* the pools as random.shuffle may leave each of them, or as they are
Shuffles(pools, shuffle) ==
    IF pools = <<>> THEN {<<>>}
    ELSE {<<first>> \o rest :
             first \in (IF shuffle THEN PermsOf(pools[1]) ELSE {pools[1]}),
             rest \in Shuffles(Tail(pools), shuffle)}

RECURSIVE Prepend(_, _)
Prepend(x, tuples) ==
    IF tuples = <<>> THEN <<>> ELSE <<(<<x>> \o Head(tuples))>> \o Prepend(x, Tail(tuples))

RECURSIVE Product(_)
RECURSIVE ProductWith(_, _)
\* itertools.product(*pools): the last pool advances fastest
Product(pools) ==
    IF pools = <<>> THEN << <<>> >> ELSE ProductWith(pools[1], Tail(pools))

ProductWith(first, others) ==
    IF first = <<>> THEN <<>>
    ELSE Prepend(Head(first), Product(others)) \o ProductWith(Tail(first), others)

\* bindings_in_dictionary_format of _compile_candidate_bindings
BindingsOf(required, tuple) ==
    [name \in {required[j].name : j \in 1..Len(required)} |->
        tuple[CHOOSE j \in 1..Len(required) : required[j].name = name]]

RECURSIVE first_triggering(_, _, _, _, _)
\* one round of the loop over the candidate bindings, given what _triggers returned
first_triggering_next(st, rule, required, tuples, i, t) ==
    IF t.err # "" THEN [err |-> t.err, found |-> FALSE, bindings |-> <<>>]
    ELSE IF t.val THEN [err |-> "", found |-> TRUE, bindings |-> BindingsOf(required, tuples[i])]
    ELSE first_triggering(st, rule, required, tuples, i + 1)

\* the loop over the candidate bindings in _attempt_rule_execution, from tuple i on:
\* the first bindings that trigger the rule, if any
first_triggering(st, rule, required, tuples, i) ==
    IF i > Len(tuples) THEN [err |-> "", found |-> FALSE, bindings |-> <<>>]
    ELSE IF Cardinality(Range(tuples[i])) # Len(tuples[i])
         THEN first_triggering(st, rule, required, tuples, i + 1)
    ELSE first_triggering_next(st, rule, required, tuples, i,
                               triggers(st.wm, rule, BindingsOf(required, tuples[i]),
                                        get_preconditions_to_ignore(rule)))

RECURSIVE all_preconditions_hold(_, _, _, _)
\* one round of the precondition loop of _bind_optional_role, given what holds returned
all_preconditions_next(wm, rule, test_bindings, i, h) ==
    IF h.err # "" \/ ~h.val THEN h
    ELSE all_preconditions_hold(wm, rule, test_bindings, i + 1)

\* the precondition loop of _bind_optional_role, from precondition i on
all_preconditions_hold(wm, rule, test_bindings, i) ==
    IF i > Len(rule.preconditions) THEN Returned(TRUE)
    ELSE all_preconditions_next(wm, rule, test_bindings, i,
                                holds(wm, rule.preconditions[i], test_bindings))

RECURSIVE bind_optional_role_from(_, _, _, _, _, _)
\* one round of the candidate loop of _bind_optional_role, given whether the
\* preconditions hold with candidate i bound
bind_optional_role_next(wm, rule, role, bindings, candidate_pool, i, h) ==
    IF h.err # "" THEN [err |-> h.err, found |-> FALSE, entity |-> None]
    ELSE IF h.val THEN [err |-> "", found |-> TRUE, entity |-> candidate_pool[i]]
    ELSE bind_optional_role_from(wm, rule, role, bindings, candidate_pool, i + 1)

\* the candidate loop of _bind_optional_role, from candidate i on: the entity bound
\* (found), none, or the exception
bind_optional_role_from(wm, rule, role, bindings, candidate_pool, i) ==
    IF i > Len(candidate_pool) THEN [err |-> "", found |-> FALSE, entity |-> None]
    ELSE IF \E r \in DOMAIN bindings : bindings[r] = candidate_pool[i]
         THEN bind_optional_role_from(wm, rule, role, bindings, candidate_pool, i + 1)
    ELSE bind_optional_role_next(
             wm, rule, role, bindings, candidate_pool, i,
             all_preconditions_hold(wm, rule, Bind(bindings, role.name, candidate_pool[i]), 1))

\* RuleEngine._bind_optional_role
bind_optional_role(st, rule, role, bindings) ==
    IF ~HasType(st.domain, role.entity_type)
    THEN [err |-> "", found |-> FALSE, entity |-> None]
    ELSE bind_optional_role_from(st.wm, rule, role, bindings,
                                 DomainGet(st.domain, role.entity_type), 1)

\* lines 216-231 of _bind_entity_creation_role, given the module attributes it set
\* and what eval returned
create_resolved(st, role, attrs, resolved) ==
    IF resolved.err # ""
    THEN [st |-> [st EXCEPT !.attrs = attrs, !.err = resolved.err], entity |-> None]
    ELSE [st |-> [st EXCEPT
                     !.attrs = attrs,
                     !.domain = DomainAppend(@, Entity(NewId(st.domain),
                                                       UniqueName(st.domain, resolved.text, 0),
                                                       role.entity_type))],
          entity |-> Entity(NewId(st.domain), UniqueName(st.domain, resolved.text, 0),
                            role.entity_type)]

\* RuleEngine._bind_entity_creation_role: the engine with the new entity in its
\* domain, and the entity
bind_entity_creation_role(st, role, bindings) ==
    create_resolved(st, role, SetAttrs(st.attrs, bindings),
                    FString(Underscore(Escape(role.entity_name_recipe)),
                            SetAttrs(st.attrs, bindings)))

RECURSIVE bind_optional_from(_, _, _, _)
\* one round of the first loop of _bind_optional_roles, given what _bind_optional_role
\* returned
bind_optional_next(st, rule, bindings, i, bound) ==
    IF bound.err # "" THEN [st |-> Raise(st, bound.err), bindings |-> bindings]
    ELSE bind_optional_from(st, rule,
                            IF bound.found THEN Bind(bindings, rule.roles[i].name, bound.entity)
                            ELSE bindings,
                            i + 1)

\* the first loop of _bind_optional_roles, from role i on
bind_optional_from(st, rule, bindings, i) ==
    IF i > Len(rule.roles) THEN [st |-> st, bindings |-> bindings]
    ELSE IF \/ rule.roles[i].entity_name_recipe # <<>>
            \/ rule.roles[i].required
            \/ rule.roles[i].action_self_reference
         THEN bind_optional_from(st, rule, bindings, i + 1)
    ELSE bind_optional_next(st, rule, bindings, i,
                            bind_optional_role(st, rule, rule.roles[i], bindings))

RECURSIVE bind_created_from(_, _, _, _)
\* one round of the second loop of _bind_optional_roles, given what
\* _bind_entity_creation_role returned
bind_created_next(rule, bindings, i, created) ==
    IF created.st.err # "" THEN [st |-> created.st, bindings |-> bindings]
    ELSE bind_created_from(created.st, rule,
                           Bind(bindings, rule.roles[i].name, created.entity), i + 1)

\* the second loop of _bind_optional_roles, from role i on
bind_created_from(st, rule, bindings, i) ==
    IF st.err # "" \/ i > Len(rule.roles) THEN [st |-> st, bindings |-> bindings]
    ELSE IF rule.roles[i].entity_name_recipe = <<>>
         THEN bind_created_from(st, rule, bindings, i + 1)
    ELSE bind_created_next(rule, bindings, i,
                           bind_entity_creation_role(st, rule.roles[i], bindings))

\* the second loop of _bind_optional_roles, run on what the first loop left
bind_created(optional, rule) == bind_created_from(optional.st, rule, optional.bindings, 1)

\* RuleEngine._bind_optional_roles
bind_optional_roles(st, rule, bindings) ==
    bind_created(bind_optional_from(st, rule, bindings, 1), rule)

\* _fire called once more on the engine the first call left
fire_again(st, rule, bindings, draws) ==
    IF st.err # "" THEN st ELSE fire(st, rule, bindings, 0, 0, draws)

\* fire_bound that fires the rule a second time in the same attempt
fire_bound_Twice(bound, rule, draws) ==
    IF bound.st.err # "" THEN bound.st
    ELSE fire_again(fire(bound.st, rule, bound.bindings, 0, 0, draws), rule, bound.bindings,
                    draws)

\* line 105 of _attempt_rule_execution, given what _bind_optional_roles returned
fire_bound(bound, rule, draws) ==
    IF bound.st.err # "" THEN bound.st
    ELSE fire(bound.st, rule, bound.bindings, 0, 0, draws)

\* the record of the draw of an attempt: the rule whose preconditions held, the
\* bindings they held under and the value drawn
Drew(rule, bindings, draw) ==
    [rule |-> rule.action_name, bindings |-> bindings, draw |-> draw]

\* the engine after the draw of line 101
DrawLogged(st, rule, bindings, draws) ==
    [Drawn(st) EXCEPT !.drew = Append(@, Drew(rule, bindings, NextDraw(st, draws)))]

\* draw_and_fire that binds the optional and the entity-creating roles before the draw
draw_and_fire_BindsFirst(st, rule, bindings, draws) ==
    IF ~DrawPasses(st, draws, rule.probability)
    THEN bind_optional_roles(DrawLogged(st, rule, bindings, draws), rule, bindings).st
    ELSE fire_bound(bind_optional_roles(DrawLogged(st, rule, bindings, draws), rule, bindings),
                    rule, draws)

\* lines 101-109 of _attempt_rule_execution: the draw, and the firing when it passes
draw_and_fire(st, rule, bindings, draws) ==
    IF ~DrawPasses(st, draws, rule.probability) THEN DrawLogged(st, rule, bindings, draws)
    ELSE fire_bound(bind_optional_roles(DrawLogged(st, rule, bindings, draws), rule, bindings),
                    rule, draws)

\* the engine after an attempt in which the random module returned the first st.k
\* values of draws: what it may return from where it stood is known that far
drawn_from(st, draws) ==
    [st EXCEPT !.rnd = {d \in @ : \A i \in 1..st.k : i \in DOMAIN draws => d[i] = draws[i]}]

\* test_bindings that goes on to the rules after this one when the draw fails
test_bindings_TriesNext(st, rule, b, next) ==
    IF b.err # "" THEN {Raise(st, b.err)}
    ELSE IF ~b.found THEN next
    ELSE UNION {IF DrawPasses(st, draws, rule.probability)
                THEN {drawn_from(draw_and_fire(st, rule, b.bindings, draws), draws)}
                ELSE next
                : draws \in st.rnd}

\* lines 97-109 of _attempt_rule_execution for one rule, given the first candidate
\* bindings that trigger it (b) and the states the rules after it may end in (next)
test_bindings(st, rule, b, next) ==
    IF b.err # "" THEN {Raise(st, b.err)}
    ELSE IF ~b.found THEN next
    ELSE {drawn_from(draw_and_fire(st, rule, b.bindings, draws), draws) : draws \in st.rnd}

\* lines 96-109 of _attempt_rule_execution for one rule, given its candidate pools
test_pools(st, rule, shuffle, pools, next) ==
    IF pools.err # "" THEN {Raise(st, pools.err)}
    ELSE IF pools.empty THEN next
    ELSE UNION {test_bindings(st, rule,
                              first_triggering(st, rule, RequiredRolesInOrder(rule),
                                               Product(shuffled), 1),
                              next)
                : shuffled \in Shuffles(pools.pools, shuffle)}

RECURSIVE test_rules(_, _, _, _)
\* test_rule that tests a response rule like any other rule
test_rule_TestsResponses(st, rule, shuffle, next) ==
    IF \E j \in 1..Len(rule.roles) :
           rule.roles[j].required /\ ~HasType(st.domain, rule.roles[j].entity_type)
    THEN next
    ELSE test_pools(st, rule, shuffle,
                    CandidatePools(st, rule, RequiredRolesInOrder(rule), 1), next)

\* lines 79-109 of _attempt_rule_execution for rule i of the pruned pool, given the
\* states the rules after it may end in
test_rule(st, rule, shuffle, next) ==
    IF rule.response_action THEN next
    ELSE IF \E j \in 1..Len(rule.roles) :
               rule.roles[j].required /\ ~HasType(st.domain, rule.roles[j].entity_type)
         THEN next
    ELSE test_pools(st, rule, shuffle,
                    CandidatePools(st, rule, RequiredRolesInOrder(rule), 1), next)

\* the rule loop of _attempt_rule_execution, from rule i of the pruned pool on: every
\* state the attempt may end in, over the shuffles of the candidate pools and the draws
test_rules(st, pruned_rules_pool, shuffle, i) ==
    IF i > Len(pruned_rules_pool) THEN {st}
    ELSE test_rule(st, pruned_rules_pool[i], shuffle,
                   test_rules(st, pruned_rules_pool, shuffle, i + 1))

\* lines 71-109 of _attempt_rule_execution, given the rules as shuffled and the pool
\* _prune_rules_pool returned
test_pruned(st, shuffle, pruned) ==
    IF pruned.err # "" THEN {Raise(st, pruned.err)}
    ELSE test_rules(st, pruned.rules, shuffle, 1)

\* RuleEngine._attempt_rule_execution: every state the attempt may end in
attempt_rule_execution(st, shuffle) ==
    UNION {test_pruned([st EXCEPT !.rules = order], shuffle, prune_rules_pool(st.wm, order))
           : order \in (IF shuffle THEN PermsOf(st.rules) ELSE {st.rules})}

\* RuleEngine.entity_by_name
entity_by_name(dom, entity_name) ==
    IF NameTaken(dom, entity_name)
    THEN Entities(dom)[CHOOSE i \in 1..Len(Entities(dom)) :
                          /\ Entities(dom)[i].name = entity_name
                          /\ \A j \in 1..(i - 1) : Entities(dom)[j].name # entity_name]
    ELSE None

\* RuleEngine.actions_involving
actions_involving(acts, dom, entity_name) ==
    SelectSeq(acts, LAMBDA action : entity_by_name(dom, entity_name) \in ActionEntities(action))

(***************************************************************************)
(* Words and names used by the checked configurations                      *)
(***************************************************************************)
Person == <<"P", "e", "r", "s", "o", "n">>
al == <<"a", "l">>
bo == <<"b", "o">>
w_is == <<"i", "s">>
w_ok == <<"o", "k">>
w_likes == <<"l", "i", "k", "e", "s">>
w_star == <<"*">>
al_is_ok == <<"a", "l", " ", "i", "s", " ", "o", "k">>
bo_is_ok == <<"b", "o", " ", "i", "s", " ", "o", "k">>
star_is_ok == <<"*", " ", "i", "s", " ", "o", "k">>

Alice == Entity(1, al, Person)
Bob == Entity(2, bo, Person)

RoleX == Role(<<"X">>, Person, FALSE, <<>>)
RoleY == Role(<<"Y">>, Person, FALSE, <<>>)

X_is_ok == <<Ref(RoleX), Lit(w_is), Lit(w_ok)>>
X_likes_Y == <<Ref(RoleX), Lit(w_likes), Ref(RoleY)>>
Y_likes_X == <<Ref(RoleY), Lit(w_likes), Ref(RoleX)>>
X_likes_any == <<Ref(RoleX), Lit(w_likes), Lit(w_star)>>
any_is_ok == <<Lit(w_star), Lit(w_is), Lit(w_ok)>>

w_hi == <<"h", "i">>
w_has == <<"h", "a", "s">>
Prop == <<"P", "r", "o", "p">>
al_note_1 == <<"a", "l", "'", "s", " ", "N", " ", "(", "1", ")">>

RoleThis == Role(This, ActionType, FALSE, <<>>)
RoleW == Role(<<"W">>, Person, FALSE, <<>>)
\* +N={W}'s N:Prop
RoleN == Role(<<"N">>, Prop, FALSE, <<"{", "W", "}", "'", "s", " ", "N">>)

X_is_hi == <<Ref(RoleX), Lit(w_is), Lit(w_hi)>>
Y_is_hi == <<Ref(RoleY), Lit(w_is), Lit(w_hi)>>
Y_is_ok == <<Ref(RoleY), Lit(w_is), Lit(w_ok)>>
W_has_N == <<Ref(RoleW), Lit(w_has), Ref(RoleN)>>

\* $Greet: one required role, one precondition on it, one positive effect
Greet ==
    Rule(<<"G", "r", "e", "e", "t">>, FALSE, <<"\"", "{", "X", "}", " ", "g", "r", "e", "e", "t", "s", "\"">>, 100,
         <<RoleX, RoleThis>>,
         <<Predicate(X_is_ok, FALSE)>>,
         <<Predicate(X_is_hi, FALSE)>>,
         <<>>)

\* $Write: an entity-creating role whose recipe names the writer
Write ==
    Rule(<<"W", "r", "i", "t", "e">>, FALSE, <<"\"", "{", "W", "}", " ", "w", "r", "i", "t", "e", "s", " ", "{", "N", "}", "\"">>, 50,
         <<RoleW, RoleN, RoleThis>>,
         <<>>,
         <<Predicate(W_has_N, FALSE)>>,
         <<>>)

\* $A, with the responses B(X=Y) and C(X=Y); its one effect is ternary
RuleA ==
    Rule(<<"A">>, FALSE, <<"\"", "{", "Y", "}", " ", "a", "\"">>, 50,
         <<RoleY, RoleThis>>,
         <<>>,
         <<TernaryExpression(Predicate(Y_is_ok, FALSE), Predicate(Y_is_hi, FALSE), None)>>,
         <<ResponseAction(<<"B">>, (RoleX.name :> RoleY.name)),
           ResponseAction(<<"C">>, (RoleX.name :> RoleY.name))>>)

\* $B (response), with the response D(X=X)
RuleB ==
    Rule(<<"B">>, TRUE, <<"\"", "{", "X", "}", " ", "b", "\"">>, 100,
         <<RoleX, RoleThis>>,
         <<Predicate(X_is_hi, FALSE)>>,
         <<>>,
         <<ResponseAction(<<"D">>, (RoleX.name :> RoleX.name))>>)

\* $C (response)
RuleC ==
    Rule(<<"C">>, TRUE, <<"\"", "{", "X", "}", " ", "c", "\"">>, 0,
         <<RoleX, RoleThis>>,
         <<>>,
         <<>>,
         <<>>)

\* $D (response)
RuleD ==
    Rule(<<"D">>, TRUE, <<"\"", "{", "X", "}", " ", "d", "\"">>, 0,
         <<RoleX, RoleThis>>,
         <<>>,
         <<>>,
         <<>>)

\* $D (response), with an apostrophe in its action string
RuleDApostrophe ==
    Rule(<<"D">>, TRUE, <<"\"", "{", "X", "}", "'", "s", " ", "d", "\"">>, 0,
         <<RoleX, RoleThis>>,
         <<>>,
         <<>>,
         <<>>)

\* $Loop, with itself as its response: Loop(X=X)
Loop ==
    Rule(<<"L", "o", "o", "p">>, FALSE, <<"\"", "{", "X", "}", " ", "l", "o", "o", "p", "s", "\"">>, 100,
         <<RoleX, RoleThis>>,
         <<Predicate(X_is_ok, FALSE)>>,
         <<>>,
         <<ResponseAction(<<"L", "o", "o", "p">>, (RoleX.name :> RoleX.name))>>)

\* ?Q:Person, an optional role
RoleQ == Role(<<"Q">>, Person, TRUE, <<>>)

Q_is_ok == <<Ref(RoleQ), Lit(w_is), Lit(w_ok)>>
Q_is_hi == <<Ref(RoleQ), Lit(w_is), Lit(w_hi)>>

\* $Meet, with an optional role that is bound only to an entity that is ok, the given
\* effects, and the response D(X=X)
Meet(effects) ==
    Rule(<<"M", "e", "e", "t">>, FALSE, <<"\"", "{", "X", "}", " ", "m", "e", "e", "t", "s", "\"">>, 100,
         <<RoleX, RoleQ, RoleThis>>,
         <<Predicate(X_is_ok, FALSE), Predicate(Q_is_ok, FALSE)>>,
         effects,
         <<ResponseAction(<<"D">>, (RoleX.name :> RoleX.name))>>)

\* (Q is hi) and then (X is hi)
MeetAdds == Meet(<<Predicate(Q_is_hi, FALSE), Predicate(X_is_hi, FALSE)>>)

\* !(Q is hi) and then (X is hi)
MeetDeletes == Meet(<<Predicate(Q_is_hi, TRUE), Predicate(X_is_hi, FALSE)>>)

\* (X is hi) if (Q is hi) else (), and then (X is hi)
MeetTests ==
    Meet(<<TernaryExpression(Predicate(Q_is_hi, FALSE), Predicate(X_is_hi, FALSE), None),
           Predicate(X_is_hi, FALSE)>>)

X_is_up == <<Ref(RoleX), Lit(<<"u", "p">>), Lit(<<"h", "i">>)>>
X_is_no == <<Ref(RoleX), Lit(<<"n", "o">>), Lit(<<"h", "i">>)>>

\* $Flip, with the given effects and no response
Flip(effects) ==
    Rule(<<"F", "l", "i", "p">>, FALSE, <<"\"", "{", "X", "}", " ", "f", "l", "i", "p", "s", "\"">>, 100,
         <<RoleX, RoleThis>>,
         <<Predicate(X_is_ok, FALSE)>>,
         effects,
         <<>>)

\* (X is hi) and then !(X is hi)
FlipAddDelete == Flip(<<Predicate(X_is_hi, FALSE), Predicate(X_is_hi, TRUE)>>)

\* !(X is hi) and then (X is hi)
FlipDeleteAdd == Flip(<<Predicate(X_is_hi, TRUE), Predicate(X_is_hi, FALSE)>>)

\* (X is hi) and then (X up hi) if (X is hi) else (X no hi)
FlipAddTest ==
    Flip(<<Predicate(X_is_hi, FALSE),
           TernaryExpression(Predicate(X_is_hi, FALSE), Predicate(X_is_up, FALSE),
                             Predicate(X_is_no, FALSE))>>)

\* (X up hi) if (X is hi) else (X no hi), and then (X is hi)
FlipTestAdd ==
    Flip(<<TernaryExpression(Predicate(X_is_hi, FALSE), Predicate(X_is_up, FALSE),
                             Predicate(X_is_no, FALSE)),
           Predicate(X_is_hi, FALSE)>>)

X_has_Y == <<Ref(RoleX), Lit(w_has), Ref(RoleY)>>
bo_is_hi == <<"b", "o", " ", "i", "s", " ", "h", "i">>
al_likes_bo == <<"a", "l", " ", "l", "i", "k", "e", "s", " ", "b", "o">>

\* $Court: a precondition on one role, an OR-expression on one role and an
\* OR-expression on two: (X is ok), (Y is ok) / (Y is hi), (X likes Y) / (X has Y)
Court ==
    Rule(<<"C", "o", "u", "r", "t">>, FALSE, <<"\"", "{", "X", "}", " ", "c", "o", "u", "r", "t", "s", " ", "{", "Y", "}", "\"">>, 100,
         <<RoleX, RoleY, RoleThis>>,
         <<Predicate(X_is_ok, FALSE),
           OrExpression(<<Predicate(Y_is_ok, FALSE), Predicate(Y_is_hi, FALSE)>>),
           OrExpression(<<Predicate(X_likes_Y, FALSE), Predicate(X_has_Y, FALSE)>>)>>,
         <<>>,
         <<>>)

\* ?R:Person, a second optional role
RoleR == Role(<<"R">>, Person, TRUE, <<>>)

\* $Meet with the optional roles ?Q and ?R, of which the preconditions reference the
\* first: (X is ok), (Q is ok)
MeetTwo ==
    Rule(<<"M", "e", "e", "t">>, FALSE, <<"\"", "{", "X", "}", " ", "m", "e", "e", "t", "s", "\"">>, 100,
         <<RoleX, RoleQ, RoleR, RoleThis>>,
         <<Predicate(X_is_ok, FALSE), Predicate(Q_is_ok, FALSE)>>,
         <<>>,
         <<>>)

W_is_ok == <<Ref(RoleW), Lit(w_is), Lit(w_ok)>>

\* $Ask, with the response Note(W=X)
Ask ==
    Rule(<<"A", "s", "k">>, FALSE, <<"\"", "{", "X", "}", " ", "a", "s", "k", "s", "\"">>, 100,
         <<RoleX, RoleThis>>,
         <<Predicate(X_is_ok, FALSE)>>,
         <<>>,
         <<ResponseAction(<<"N", "o", "t", "e">>, (RoleW.name :> RoleX.name))>>)

\* $Note (response), with the entity-creating role +N={W}'s N:Prop
Note ==
    Rule(<<"N", "o", "t", "e">>, TRUE, <<"\"", "{", "W", "}", " ", "n", "o", "t", "e", "s", "\"">>, 100,
         <<RoleW, RoleN, RoleThis>>,
         <<Predicate(W_is_ok, FALSE)>>,
         <<Predicate(W_has_N, FALSE)>>,
         <<>>)

\* $Tell, with the optional role ?Q as the source of its response D(X=Q)
Tell ==
    Rule(<<"T", "e", "l", "l">>, FALSE, <<"\"", "{", "X", "}", " ", "t", "e", "l", "l", "s", "\"">>, 100,
         <<RoleX, RoleQ, RoleThis>>,
         <<Predicate(X_is_ok, FALSE), Predicate(Q_is_ok, FALSE)>>,
         <<>>,
         <<ResponseAction(<<"D">>, (RoleX.name :> RoleQ.name))>>)
\* $Twin, whose response passes its one entity to two roles: Pair(X=X, Y=X)
Twin ==
    Rule(<<"T", "w", "i", "n">>, FALSE, <<"\"", "{", "X", "}", " ", "t", "w", "i", "n", "s", "\"">>, 100,
         <<RoleX, RoleThis>>,
         <<Predicate(X_is_ok, FALSE)>>,
         <<>>,
         <<ResponseAction(<<"P", "a", "i", "r">>, (RoleX.name :> RoleX.name) @@ (RoleY.name :> RoleX.name))>>)

\* $Pair (response)
Pair ==
    Rule(<<"P", "a", "i", "r">>, TRUE, <<"\"", "{", "X", "}", " ", "p", "a", "i", "r", "s", " ", "{", "Y", "}", "\"">>, 100,
         <<RoleX, RoleY, RoleThis>>,
         <<>>,
         <<>>,
         <<>>)

X_likes_Q == <<Ref(RoleX), Lit(w_likes), Ref(RoleQ)>>

\* $Chat, whose action string references its optional role: !(X likes Q) is its
\* precondition and (X likes Q) its effect
Chat ==
    Rule(<<"C", "h", "a", "t">>, FALSE, <<"\"", "{", "X", "}", " ", "c", "h", "a", "t", "s", " ", "{", "Q", "}", "\"">>, 100,
         <<RoleX, RoleQ, RoleThis>>,
         <<Predicate(X_is_ok, FALSE), Predicate(X_likes_Q, TRUE)>>,
         <<Predicate(X_likes_Q, FALSE)>>,
         <<>>)

\* The inputs an engine is constructed from: a rules file, the entity lists of the
\* domain files, the fact lines their fact blocks are drawn from, and whether the
\* rules are shuffled.
Scenario(name, rs, entity_lists, fact_lines, shuffles) ==
    [name |-> name, rules |-> rs, entity_lists |-> entity_lists,
     fact_lines |-> fact_lines, shuffles |-> shuffles]

People == <<Alice, Bob>>

Scenarios ==
    {Scenario("greet", <<Greet>>, {People}, {al_is_ok, bo_is_ok}, BOOLEAN),
     Scenario("write", <<Write, Greet>>,
              {People, People \o <<Entity(3, al_note_1, Prop)>>, People \o <<Entity(3, al, Prop)>>},
              {al_is_ok}, BOOLEAN),
     Scenario("chain", <<RuleA, RuleB, RuleC, RuleD>>, {People}, {al_is_ok, bo_is_ok}, {FALSE}),
     Scenario("apostrophe", <<RuleA, RuleB, RuleC, RuleDApostrophe>>, {People}, {al_is_ok},
              {FALSE}),
     Scenario("loop", <<Loop>>, {People}, {al_is_ok}, {FALSE}),
     Scenario("response_first", <<RuleB, RuleA, RuleC, RuleD>>, {People}, {al_is_ok}, {FALSE}),
     Scenario("optional_add", <<MeetAdds, RuleD>>, {People}, {al_is_ok, bo_is_ok}, {FALSE}),
     Scenario("optional_delete", <<MeetDeletes, RuleD>>, {People}, {al_is_ok, bo_is_ok}, {FALSE}),
     Scenario("optional_ternary", <<MeetTests, RuleD>>, {People}, {al_is_ok, bo_is_ok}, {FALSE}),
     Scenario("court", <<Court>>, {People}, {al_is_ok, bo_is_hi, al_likes_bo}, BOOLEAN),
     Scenario("two_optional", <<MeetTwo>>, {People}, {al_is_ok, bo_is_ok}, {FALSE}),
     Scenario("ask", <<Ask, Note>>, {People}, {al_is_ok}, {FALSE}),
     Scenario("add_delete", <<FlipAddDelete>>, {People}, {al_is_ok}, {FALSE}),
     Scenario("delete_add", <<FlipDeleteAdd>>, {People}, {al_is_ok}, {FALSE}),
     Scenario("add_test", <<FlipAddTest>>, {People}, {al_is_ok}, {FALSE}),
     Scenario("test_add", <<FlipTestAdd>>, {People}, {al_is_ok}, {FALSE}),
     Scenario("tell", <<Tell, RuleD>>, {People}, {al_is_ok, bo_is_ok}, {FALSE}),
     Scenario("twin", <<Twin, Pair>>, {People}, {al_is_ok}, {FALSE}),
     Scenario("chat", <<Chat>>, {People}, {al_is_ok}, {FALSE})}

(***************************************************************************)
(* Calls on a working memory                                               *)
(***************************************************************************)
\* the most index entries a store is grown to
MaxIndexLen == 3

RECURSIVE SumLen(_, _)
SumLen(idx, keys) ==
    IF keys = {} THEN 0
    ELSE LET k == CHOOSE k \in keys : TRUE
         IN  Len(idx[k]) + SumLen(idx, keys \ {k})

IndexLen(idx) == SumLen(idx, DOMAIN idx)

WM == Store(facts, facts_by_first_character)

\* the entities bound, to some of the roles, all of them or none
WMBindings ==
    {<<>>,
     (RoleX.name :> Alice),
     (RoleX.name :> Bob),
     (RoleX.name :> Alice) @@ (RoleY.name :> Bob),
     (RoleX.name :> Bob) @@ (RoleY.name :> Alice)}

\* the predicates given to add and delete
WMEffects == {Predicate(X_is_ok, FALSE), Predicate(X_likes_Y, FALSE)}

\* the facts given to add_grounded_fact
WMGroundedFacts == {al_is_ok, bo_is_ok, star_is_ok}

\* the conditions given to holds, each taken with its negated flag clear and set
WMConditions ==
    {Predicate(X_is_ok, FALSE), Predicate(X_likes_Y, FALSE),
     Predicate(X_likes_any, FALSE), Predicate(any_is_ok, FALSE),
     OrExpression(<<Predicate(X_likes_Y, FALSE), Predicate(Y_likes_X, FALSE)>>),
     OrExpression(<<Predicate(X_likes_Y, TRUE), Predicate(X_is_ok, FALSE)>>)}

Call(name, predicate, bindings, fact) ==
    [name |-> name, predicate |-> predicate, bindings |-> bindings, fact |-> fact,
     \* whether the call before this one was add with the same predicate and bindings
     follows_add |-> op.name = "add" /\ op.predicate = predicate /\ op.bindings = bindings]

NoCall == [name |-> "", predicate |-> Predicate(<<>>, FALSE), bindings |-> <<>>,
           fact |-> <<>>, follows_add |-> FALSE]

EngineUnchanged == UNCHANGED <<rules, domain, actions, module_attrs, shuffle_randomly, grammar, runs,
                               fire_log, compiled>>

\* the store and the exception a working-memory call leaves
WMReturn(outcome) ==
    /\ facts' = outcome.wm.facts
    /\ facts_by_first_character' = outcome.wm.idx
    /\ raised' = outcome.err
    /\ pre' = WM

WMAddGroundedFact ==
    \E fact \in WMGroundedFacts :
        /\ IndexLen(facts_by_first_character) < MaxIndexLen
        /\ WMReturn(add_grounded_fact(WM, fact))
        /\ op' = Call("add_grounded_fact", Predicate(<<>>, FALSE), <<>>, fact)
        /\ EngineUnchanged

WMAdd ==
    \E predicate \in WMEffects, bindings \in WMBindings :
        /\ IndexLen(facts_by_first_character) < MaxIndexLen
        /\ WMReturn(add(WM, predicate, bindings))
        /\ op' = Call("add", predicate, bindings, <<>>)
        /\ EngineUnchanged

WMDelete ==
    \E predicate \in WMEffects, bindings \in WMBindings :
        /\ WMReturn(delete(WM, predicate, bindings))
        /\ op' = Call("delete", predicate, bindings, <<>>)
        /\ EngineUnchanged

\* WorkingMemory.__init__ with no initial facts, on its own
InitWM ==
    /\ rules = <<>>
    /\ domain = <<>>
    /\ facts = {}
    /\ facts_by_first_character = <<>>
    /\ actions = <<>>
    /\ module_attrs = <<>>
    /\ shuffle_randomly = FALSE
    /\ raised = ""
    /\ op = NoCall
    /\ pre = EmptyStore
    /\ fire_log = <<>>
    /\ grammar = <<>>
    /\ runs = <<>>
    /\ compiled = <<>>

NextWM == WMAddGroundedFact \/ WMAdd \/ WMDelete

SpecWM == InitWM /\ [][NextWM]_vars

(***************************************************************************)
(* Claims about the working memory, checked under SpecWM                   *)
(***************************************************************************)
\* C1: after any sequence of add_grounded_fact, add and delete calls, every fact of
\* the fact set is in the index bucket keyed on its first character.
C1_FactsAreIndexed ==
    \A fact \in facts :
        /\ fact # <<>>
        /\ fact[1] \in DOMAIN facts_by_first_character
        /\ Contains(facts_by_first_character[fact[1]], fact)

\* a delete has removed a fact, other facts remain, and a bucket holds a copy twice
C1_Witness ==
    /\ op.name = "delete"
    /\ pre.facts # facts
    /\ facts # {}
    /\ \E c \in DOMAIN facts_by_first_character :
           \E fact \in facts : Count(facts_by_first_character[c], fact) >= 2

\* the call just made repeats, with delete, the add made right before it, and both returned
DeleteUndoesAdd(call, err) ==
    /\ call.name = "delete"
    /\ call.follows_add
    /\ ~Ungrounded(call.predicate, call.bindings)
    /\ err = ""

\* how often each fact is in each bucket is the same in both stores
SameBucketContents(a, b) ==
    \A c \in DOMAIN a.idx \cup DOMAIN b.idx :
        \A fact \in Range(facts_starting_with(a, c)) \cup Range(facts_starting_with(b, c)) :
            Count(facts_starting_with(a, c), fact) = Count(facts_starting_with(b, c), fact)

\* the two stores hold the same facts and every bucket reads the same list (a bucket
\* that is missing reads as the empty list, as _facts_starting_with returns it)
SameStore(a, b) ==
    /\ a.facts = b.facts
    /\ \A c \in DOMAIN a.idx \cup DOMAIN b.idx :
           facts_starting_with(a, c) = facts_starting_with(b, c)

\* C3 as stated: add(P,b) and then delete(P,b) returns the store, the fact set
\* together with its index, to the state it had before the add.
C3_Original ==
    [][DeleteUndoesAdd(op', raised') =>
           SameStore(Store(facts', facts_by_first_character'), pre)]_vars

\* C3 as amended: when the fact P grounds to is not in the fact set before the add,
\* add(P,b) and then delete(P,b) returns the fact set to what it was and leaves every
\* bucket of the index holding the facts it held, each as often as before; and in the
\* same order when the index held no copy of that fact before the add.
C3_AddThenDelete ==
    [][(DeleteUndoesAdd(op', raised') /\ ground(op.predicate, op.bindings) \notin pre.facts) =>
           LET fact == ground(op.predicate, op.bindings)
               after == Store(facts', facts_by_first_character')
           IN  /\ facts' = pre.facts
               /\ SameBucketContents(after, pre)
               /\ ~Contains(facts_starting_with(pre, fact[1]), fact) => SameStore(after, pre)]_vars

\* a delete has undone the add before it, from a store that held other facts
C3_Witness ==
    /\ DeleteUndoesAdd(op, raised)
    /\ ground(op.predicate, op.bindings) \notin facts
    /\ pre.facts = facts \cup {ground(op.predicate, op.bindings)}
    /\ facts # {}

\* C4 as stated: the second of two consecutive add(P,b) calls leaves the store, the
\* fact set together with its index, exactly as the first call left it.
C4_SecondAddChangesNothing ==
    [][(op'.name = "add" /\ op'.follows_add) =>
           SameStore(Store(facts', facts_by_first_character'), WM)]_vars

\* C5: on one working memory, holds with the negated flag set returns the negation
\* of holds with the flag clear, for plain predicates and OR-expressions alike (and
\* the one raises exactly when the other does).
C5_NegationInverts ==
    \A condition \in WMConditions, bindings \in WMBindings :
        LET flag_clear == holds(WM, [condition EXCEPT !.negated = FALSE], bindings)
            flag_set == holds(WM, [condition EXCEPT !.negated = TRUE], bindings)
        IN  /\ flag_set.err = flag_clear.err
            /\ flag_clear.err = "" => flag_set.val = ~flag_clear.val

\* an OR-expression holds through its second disjunct, another fails, and a regex probe matches
C5_Witness ==
    /\ \E condition \in WMConditions, bindings \in WMBindings :
           /\ condition.or_expression
           /\ holds(WM, condition.conditions[1], bindings) = Returned(FALSE)
           /\ holds(WM, condition, bindings) = Returned(TRUE)
           /\ holds(WM, [condition EXCEPT !.negated = TRUE], bindings) = Returned(FALSE)
    /\ \E condition \in WMConditions, bindings \in WMBindings :
           /\ condition.or_expression
           /\ holds(WM, condition, bindings) = Returned(FALSE)
    /\ holds(WM, Predicate(any_is_ok, FALSE), <<>>) = Returned(TRUE)

(***************************************************************************)
(* The rule engine: construction and execute                               *)
(***************************************************************************)
\* the most Actions recorded before execute is last called, and the most attempts
\* one execute call is asked for
MaxActions == 2
MaxExecute == 2

RECURSIVE BuildDomain(_)
\* lines 18-23 of parse_domain_file: the entities grouped by type, in file order
BuildDomain(entities) ==
    IF entities = <<>> THEN <<>>
    ELSE DomainAppend(BuildDomain(SubSeq(entities, 1, Len(entities) - 1)),
                      entities[Len(entities)])

\* lines 24-30 of parse_domain_file: no exception for two entities of one name
UniqueNames(entities) ==
    \A i, j \in 1..Len(entities) : entities[i].name = entities[j].name => i = j

RECURSIVE BuildStore(_)
\* WorkingMemory.__init__: add_grounded_fact for each initial fact, in the order the
\* set is iterated in
BuildStore(initial_facts) ==
    IF initial_facts = <<>> THEN EmptyStore
    ELSE add_grounded_fact(BuildStore(SubSeq(initial_facts, 1, Len(initial_facts) - 1)),
                           initial_facts[Len(initial_facts)]).wm

\* every order a set may be iterated in
OrdersOf(S) ==
    {q \in [1..Cardinality(S) -> S] : \A i, j \in 1..Cardinality(S) : q[i] = q[j] => i = j}

\* the call in progress: execute(n), with todo attempts still to make, base the
\* number of Actions recorded when it was called, and before and logged the numbers
\* of Actions and of events recorded when its last attempt began, and drew the draws
\* the rule loop of that attempt made
ExecuteCall(n, todo, base, before, logged) ==
    [name |-> "execute", n |-> n, todo |-> todo, base |-> base, before |-> before,
     logged |-> logged, drew |-> <<>>]

Engine == EngineState(rules, domain, WM, actions, module_attrs, fire_log)

\* RuleEngine.__init__
Init ==
    \E sc \in Scenarios :
        \E entities \in sc.entity_lists, initial_facts \in SUBSET sc.fact_lines :
            \E order \in OrdersOf(initial_facts) :
                /\ UniqueNames(entities)
                /\ rules = sc.rules
                /\ domain = BuildDomain(entities)
                /\ facts = BuildStore(order).facts
                /\ facts_by_first_character = BuildStore(order).idx
                /\ actions = <<>>
                /\ module_attrs = <<>>
                /\ shuffle_randomly \in sc.shuffles
                /\ raised = ""
                /\ op = ExecuteCall(0, 0, 0, 0, 0)
                /\ pre = EmptyStore
                /\ fire_log = <<>>
                /\ grammar = <<>>
                /\ runs = <<>>
                /\ compiled = <<>>

\* RuleEngine.execute is called
Execute ==
    \E n \in 0..MaxExecute :
        /\ op.todo = 0
        /\ Len(actions) < MaxActions
        /\ op' = ExecuteCall(n, n, Len(actions), Len(actions), Len(fire_log))
        /\ raised' = ""
        /\ pre' = WM
        /\ UNCHANGED <<rules, domain, facts, facts_by_first_character, actions,
                       module_attrs, shuffle_randomly, grammar, runs, fire_log, compiled>>

\* one round of the loop of execute: RuleEngine._attempt_rule_execution
Attempt ==
    /\ op.todo > 0
    /\ \E st \in attempt_rule_execution(Engine, shuffle_randomly) :
           /\ st.k <= MaxDraws
           /\ rules' = st.rules
           /\ domain' = st.domain
           /\ facts' = st.wm.facts
           /\ facts_by_first_character' = st.wm.idx
           /\ actions' = st.actions
           /\ module_attrs' = st.attrs
           /\ fire_log' = st.log
           /\ raised' = st.err
           /\ op' = [op EXCEPT !.todo = IF st.err = "" THEN @ - 1 ELSE 0, !.before = Len(actions),
                               !.logged = Len(fire_log), !.drew = st.drew]
           /\ pre' = WM
    /\ UNCHANGED <<shuffle_randomly, grammar, runs, compiled>>

Next == Execute \/ Attempt

Spec == Init /\ [][Next]_vars

(***************************************************************************)
(* Claims about the rule engine, checked under Spec                        *)
(***************************************************************************)
\* the places in the actions list of the Actions the last attempt recorded, and the
\* places in the log of the events it recorded
LastActions == (op.before + 1)..Len(actions)
LastEvents == (op.logged + 1)..Len(fire_log)

\* the rule whose firing recorded the Action at place a
RuleOf(a) == RuleNamed(rules, actions[a].name)

\* the firing records of the log: the b-th belongs to the Action at place b
Fires == SelectSeq(fire_log, LAMBDA event : event.kind = "fire")

\* C2: no two entities of the domain have the same name, the Action entities and the
\* created entities counted.
C2_EntityNamesUnique ==
    \A i, j \in 1..Len(Entities(domain)) :
        Entities(domain)[i].name = Entities(domain)[j].name => i = j

\* a rule set of one non-response rule of probability 1 with one required role, one
\* precondition on that role and one positive effect
TrivialRuleSet(rs) ==
    /\ Len(rs) = 1
    /\ ~rs[1].response_action
    /\ rs[1].probability = 100
    /\ Len(RequiredRolesInOrder(rs[1])) = 1
    /\ Len(rs[1].preconditions) = 1
    /\ RequiredRoles(rs[1].preconditions[1]) = {RequiredRolesInOrder(rs[1])[1].name}
    /\ Len(rs[1].effects) = 1
    /\ ~IsTernary(rs[1].effects[1])
    /\ ~rs[1].effects[1].negated

\* the entities of the role's type that satisfy the precondition of the one rule
Satisfying(rs, dom, wm) ==
    {e \in Range(Entities(dom)) :
        /\ e.type = RequiredRolesInOrder(rs[1])[1].entity_type
        /\ holds(wm, rs[1].preconditions[1], (RequiredRolesInOrder(rs[1])[1].name :> e)).val}

\* what C6 says of the attempt of execute(1), for the one entity e that satisfies
C6_Recorded(e) ==
    /\ Len(actions') = Len(actions) + 1
    /\ actions'[Len(actions')].name = rules[1].action_name
    /\ ground(rules[1].effects[1], (RequiredRolesInOrder(rules[1])[1].name :> e)) \in facts'
    /\ Len(actions_involving(actions', domain', e.name))
           = Len(actions_involving(actions, domain, e.name)) + 1
    /\ actions = <<>> => Len(actions_involving(actions', domain', e.name)) = 1

\* C6: with a trivial rule set and exactly one entity e satisfying the precondition,
\* the attempt of execute(1) records exactly one Action, named after the rule, adds
\* the effect grounded with e, and makes actions_involving(name of e) one longer:
\* of length 1 on an engine that had recorded no Action.
C6_TrivialFiring ==
    [][(/\ TrivialRuleSet(rules)
        /\ op.n = 1 /\ op.todo = 1 /\ op'.todo = 0
        /\ Cardinality(Satisfying(rules, domain, WM)) = 1)
       => C6_Recorded(CHOOSE e \in Satisfying(rules, domain, WM) : TRUE)]_vars

\* execute(1) has returned on a fresh engine with a trivial rule set in which al alone
\* satisfied the precondition, and one Action involves al
C6_Witness ==
    /\ TrivialRuleSet(rules)
    /\ op.n = 1 /\ op.todo = 0 /\ op.before = 0
    /\ {e.name : e \in Satisfying(rules, domain, pre)} = {al}
    /\ Len(actions) = 1
    /\ Len(actions_involving(actions, domain, al)) = 1
    /\ ground(rules[1].effects[1], (RoleX.name :> Alice)) \in facts

\* the test the last attempt made of response i of the Action at place a
TestOf(a, i) ==
    fire_log[CHOOSE j \in LastEvents :
                 /\ fire_log[j].kind = "try"
                 /\ fire_log[j].parent = a
                 /\ fire_log[j].decl = i]

\* response i of the Action at place a was tested, with each target role bound to the
\* entity of its source role
Attempted(a, i) ==
    /\ \E j \in LastEvents :
           /\ fire_log[j].kind = "try"
           /\ fire_log[j].parent = a
           /\ fire_log[j].decl = i
    /\ DOMAIN TestOf(a, i).bindings = DOMAIN RuleOf(a).response_actions[i].action_bindings
    /\ \A target_role \in DOMAIN TestOf(a, i).bindings :
           TestOf(a, i).bindings[target_role]
               = actions[a].bindings[RuleOf(a).response_actions[i].action_bindings[target_role]]

\* the store as the effects of the first Action of the last attempt left it
AfterEffects ==
    apply_effects(EngineState(rules, domain, pre, <<>>, <<>>, <<>>),
                  RuleOf(op.before + 1), actions[op.before + 1].bindings, 1).wm

\* whether the preconditions of the rule of response i of the Action at place a held
\* when they were tested; for the first response of the first Action of the attempt
\* that is in the store as that Action's effects left it
PreconditionsHeld(a, i) ==
    /\ TestOf(a, i).triggered
    /\ (a = op.before + 1 /\ i = 1)
           => triggers(AfterEffects,
                       RuleNamed(rules, RuleOf(a).response_actions[i].action_name),
                       TestOf(a, i).bindings, {}).val

\* the last attempt recorded the Action of response i of the Action at place a, with
\* the bindings the response was tested with
Responded(a, i) ==
    \E b \in LastActions :
        /\ Fires[b].parent = a
        /\ Fires[b].decl = i
        /\ actions[b].name = RuleOf(a).response_actions[i].action_name
        /\ \A target_role \in DOMAIN TestOf(a, i).bindings :
               actions[b].bindings[target_role] = TestOf(a, i).bindings[target_role]

RECURSIVE AncestorsOrSelf(_)
\* the Action at place b and the Actions it responds to, directly or not
AncestorsOrSelf(b) ==
    IF b = 0 THEN {} ELSE {b} \cup AncestorsOrSelf(Fires[b].parent)

\* C8: the Actions are recorded depth-first and in declaration order. Every Action
\* recorded as a response comes after the one it responds to and is named by the
\* response declared at its place; it responds to the Action recorded just before it
\* or to one that Action responds to, directly or not; of two responses to one Action
\* the one declared first is recorded first; the tests of the responses to one Action
\* are made in declaration order; and every Action an attempt records after its first
\* responds to an Action of that attempt.
C8_DepthFirst ==
    /\ Len(Fires) = Len(actions)
    /\ \A b \in 1..Len(actions) :
           /\ Fires[b].parent < b
           /\ Fires[b].parent # 0 =>
                  /\ Fires[b].decl \in 1..Len(RuleOf(Fires[b].parent).response_actions)
                  /\ actions[b].name
                         = RuleOf(Fires[b].parent).response_actions[Fires[b].decl].action_name
                  /\ Fires[b].parent \in AncestorsOrSelf(b - 1)
           /\ \A c \in (b + 1)..Len(actions) :
                  (Fires[c].parent = Fires[b].parent /\ Fires[b].parent # 0)
                      => Fires[b].decl < Fires[c].decl
    /\ \A j, k \in 1..Len(fire_log) :
           (/\ j < k
            /\ fire_log[j].kind = "try"
            /\ fire_log[k].kind = "try"
            /\ fire_log[j].parent = fire_log[k].parent)
               => fire_log[j].decl < fire_log[k].decl
    /\ \A b \in LastActions :
           IF b = op.before + 1 THEN Fires[b].parent = 0 ELSE Fires[b].parent > op.before

\* one attempt recorded $A, its first response $B, the response $D of $B and then the
\* second response $C of $A
C8_Witness ==
    /\ Len(actions) = op.before + 4
    /\ [b \in 1..4 |-> actions[op.before + b].name]
           = <<RuleA.action_name, RuleB.action_name, RuleD.action_name, RuleC.action_name>>
    /\ [b \in 1..4 |-> Fires[op.before + b].parent]
           = <<0, op.before + 1, op.before + 2, op.before + 1>>

\* the name the recipe of an entity-creating role yields for the Action at place a:
\* the recipe interpolated with the names of the entities bound to the other roles
RecipeName(a, role) ==
    FString(Underscore(Escape(role.entity_name_recipe)),
            SetAttrs(<<>>, [r \in DOMAIN actions[a].bindings \ {This, role.name} |->
                               actions[a].bindings[r]])).text

\* the names of the entities that existed when entity was created
NamesBefore(entity) == {e.name : e \in {x \in Range(Entities(domain)) : x.id < entity.id}}

\* the entity is named N when no entity had that name, and otherwise N (k) for the
\* smallest k >= 1 such that no entity had that name
NamedUniquely(entity, N) ==
    IF N \notin NamesBefore(entity) THEN entity.name = N
    ELSE \E k \in 1..Len(Entities(domain)) :
             /\ entity.name = Suffixed(N, k)
             /\ Suffixed(N, k) \notin NamesBefore(entity)
             /\ \A m \in 1..(k - 1) : Suffixed(N, m) \in NamesBefore(entity)

\* C9: the entity created for an entity-creating role, when the role is bound by
\* _bind_entity_creation_role (in a firing of the rule loop), is named N, the name its
\* recipe yields, when no entity had that name, and otherwise N (k) for the smallest
\* k >= 1 such that no entity had that name; it has the role's type and is in the
\* domain under that type.
C9_CreatedEntityName ==
    raised = "" =>
        \A a \in LastActions :
            \A r \in 1..Len(RuleOf(a).roles) :
                (Fires[a].parent = 0 /\ RuleOf(a).roles[r].entity_name_recipe # <<>>) =>
                    /\ RuleOf(a).roles[r].name \in DOMAIN actions[a].bindings
                    /\ actions[a].bindings[RuleOf(a).roles[r].name].type
                           = RuleOf(a).roles[r].entity_type
                    /\ HasType(domain, RuleOf(a).roles[r].entity_type)
                    /\ Contains(DomainGet(domain, RuleOf(a).roles[r].entity_type),
                                actions[a].bindings[RuleOf(a).roles[r].name])
                    /\ NamedUniquely(actions[a].bindings[RuleOf(a).roles[r].name],
                                     RecipeName(a, RuleOf(a).roles[r]))

\* two firings of $Write with W bound to al on a domain that had neither name: the
\* first created al's N and the second al's N (1)
C9_Witness ==
    /\ raised = ""
    /\ Len(actions) = 2
    /\ op.before = 1
    /\ \A a \in 1..2 : actions[a].name = Write.action_name /\ actions[a].bindings[RoleW.name] = Alice
    /\ actions[1].bindings[RoleN.name].name = <<"a", "l", "'", "s", " ", "N">>
    /\ actions[2].bindings[RoleN.name].name = al_note_1
    /\ actions[2].bindings[RoleN.name] \in Range(DomainGet(domain, Prop))

(***************************************************************************)
(* Compiler: condition definitions                                         *)
(***************************************************************************)
RECURSIVE LStrip(_, _)
\* str.lstrip(chars)
LStrip(s, chars) ==
    IF s # <<>> /\ Head(s) \in chars THEN LStrip(Tail(s), chars) ELSE s

RECURSIVE RStrip(_, _)
\* str.rstrip(chars)
RStrip(s, chars) ==
    IF s # <<>> /\ s[Len(s)] \in chars THEN RStrip(SubSeq(s, 1, Len(s) - 1), chars) ELSE s

\* str.strip(), and lstrip().rstrip()
Strip(s) == RStrip(LStrip(s, Whitespace), Whitespace)

\* str.startswith(prefix)
StartsWith(s, prefix) == Len(s) >= Len(prefix) /\ SubSeq(s, 1, Len(prefix)) = prefix

RECURSIVE Split(_, _)
\* str.split(sep), for a separator of one character
Split(s, sep) ==
    IF Find(s, sep, 1) = 0 THEN <<s>>
    ELSE <<SubSeq(s, 1, Find(s, sep, 1) - 1)>> \o Split(SubSeq(s, Find(s, sep, 1) + 1, Len(s)), sep)

\* the place of the first whitespace character of s, Len(s) + 1 when there is none
RECURSIVE WordEnd(_, _)
WordEnd(s, i) ==
    IF i > Len(s) \/ s[i] \in Whitespace THEN i ELSE WordEnd(s, i + 1)

RECURSIVE SplitWords(_)
\* str.split(): the words between runs of whitespace
SplitWords(s) ==
    IF LStrip(s, Whitespace) = <<>> THEN <<>>
    ELSE <<SubSeq(LStrip(s, Whitespace), 1, WordEnd(LStrip(s, Whitespace), 1) - 1)>>
         \o SplitWords(SubSeq(LStrip(s, Whitespace), WordEnd(LStrip(s, Whitespace), 1),
                              Len(LStrip(s, Whitespace))))

\* the characters c with c != c.lower()
Uppercase ==
    {"A", "B", "C", "D", "E", "F", "G", "H", "I", "J", "K", "L", "M",
     "N", "O", "P", "Q", "R", "S", "T", "U", "V", "W", "X", "Y", "Z"}

\* what the compiler returns for a definition: the object, or the exception raised
Parsed(condition) == [err |-> "", condition |-> condition]
ParseError == [err |-> "Exception", condition |-> None]

\* lines 490-501 of _parse_condition_definition: the template element of a word
TemplateElement(word, roles) ==
    IF word[1] \notin Uppercase THEN Lit(word)
    ELSE Ref(roles[CHOOSE i \in 1..Len(roles) : roles[i].name = word])

\* lines 488-503 of _parse_condition_definition, given the words of the predicate
parse_words(negated, words, roles) ==
    IF \E w \in 1..Len(words) :
           /\ words[w][1] \in Uppercase
           /\ \A i \in 1..Len(roles) : roles[i].name # words[w]
    THEN ParseError
    ELSE Parsed(Predicate([w \in 1..Len(words) |-> TemplateElement(words[w], roles)], negated))

\* lines 485-503 of _parse_condition_definition: a definition with no '/'
parse_predicate(raw_precondition, roles) ==
    parse_words(raw_precondition[1] = "!",
                SplitWords(RStrip(LStrip(raw_precondition, {"!", "(", " "}), {" ", ")"})),
                roles)

\* the conditions of an OR expression from alternate i on, given the object parsed
\* from alternate i and the conditions after it
alternates_next(parsed, rest) ==
    IF parsed.err # "" THEN [err |-> parsed.err, conditions |-> <<>>]
    ELSE IF rest.err # "" THEN rest
    ELSE [err |-> "", conditions |-> <<parsed.condition>> \o rest.conditions]

\* lines 483-484 of _parse_condition_definition
or_expression_of(alternates) ==
    IF alternates.err # "" THEN ParseError ELSE Parsed(OrExpression(alternates.conditions))

RECURSIVE parse_condition_definition(_, _)
RECURSIVE parse_alternates(_, _, _)
\* lines 469-484 of _parse_condition_definition, given the definition stripped; the
\* first test is Python's chained comparison a != b != 1, that is a != b and b != 1
parse_stripped(condition_definition, roles) ==
    IF /\ Count(condition_definition, "(") # Count(condition_definition, ")")
       /\ Count(condition_definition, ")") # 1
    THEN ParseError
    ELSE IF /\ ~StartsWith(condition_definition, <<"(">>)
            /\ ~StartsWith(condition_definition, <<"!", "(">>)
         THEN ParseError
    ELSE IF Contains(condition_definition, "/")
         THEN or_expression_of(parse_alternates(Split(condition_definition, "/"), roles, 1))
    ELSE parse_predicate(condition_definition, roles)

\* Compiler._parse_condition_definition
parse_condition_definition(condition_definition, roles) ==
    parse_stripped(Strip(condition_definition), roles)

\* the loop over raw_conditions of _parse_condition_definition, from alternate i on
parse_alternates(raw_conditions, roles, i) ==
    IF i > Len(raw_conditions) THEN [err |-> "", conditions |-> <<>>]
    ELSE alternates_next(parse_condition_definition(raw_conditions[i], roles),
                         parse_alternates(raw_conditions, roles, i + 1))

(***************************************************************************)
(* A precondition line is compiled, then evaluated                         *)
(***************************************************************************)
\* the roles of the rule the line belongs to: X:Person, Y:Person and This
LineRoles == <<RoleX, RoleY, RoleThis>>

S6Line == <<"!", "(", "(", "X", " ", "l", "i", "k", "e", "s", " ", "Y", ")", " ", "/", " ", "(", "Y", " ", "l", "i", "k", "e", "s", " ", "X", ")", ")">>

\* the precondition lines compiled
ConditionLines ==
    {S6Line,
     <<"(", "X", " ", "l", "i", "k", "e", "s", " ", "Y", ")", " ", "/", " ", "(", "Y", " ", "l", "i", "k", "e", "s", " ", "X", ")">>,
     <<"!", "(", "X", " ", "l", "i", "k", "e", "s", " ", "Y", ")", " ", "/", " ", "!", "(", "Y", " ", "l", "i", "k", "e", "s", " ", "X", ")">>,
     <<"!", "(", "X", " ", "l", "i", "k", "e", "s", " ", "Y", ")">>,
     <<" ", " ", "(", "X", " ", " ", "l", "i", "k", "e", "s", " ", "Y", ")", " ">>,
     <<"(", "(", "X", " ", "l", "i", "k", "e", "s", " ", "Y", ")">>,
     <<"(", "X", " ", "l", "i", "k", "e", "s", " ", "Z", ")">>,
     <<"X", " ", "l", "i", "k", "e", "s", " ", "Y">>}

Likes(x, y) == x.name \o <<" ">> \o w_likes \o <<" ">> \o y.name

\* the fact lines of the domain file
LikesFactLines == {Likes(Alice, Bob), Likes(Bob, Alice), Likes(Alice, Alice)}

\* the bindings a condition is evaluated with
LikesBindings ==
    {(RoleX.name :> x) @@ (RoleY.name :> y) : x \in {Alice, Bob}, y \in {Alice, Bob}}

\* a precondition line: as written, then as compiled, then as evaluated
Line(status, definition, parsed, bindings, held) ==
    [status |-> status, definition |-> definition, err |-> parsed.err,
     condition |-> parsed.condition, bindings |-> bindings, held |-> held]

InitCompile ==
    \E initial_facts \in SUBSET LikesFactLines, definition \in ConditionLines :
        \E order \in OrdersOf(initial_facts) :
            /\ rules = <<>>
            /\ domain = BuildDomain(People)
            /\ facts = BuildStore(order).facts
            /\ facts_by_first_character = BuildStore(order).idx
            /\ actions = <<>>
            /\ module_attrs = <<>>
            /\ shuffle_randomly = FALSE
            /\ raised = ""
            /\ op = NoCall
            /\ pre = EmptyStore
            /\ fire_log = <<>>
            /\ grammar = <<>>
            /\ runs = <<>>
            /\ compiled = Line("source", definition, Parsed(None), <<>>, FALSE)

\* Compiler._parse_rule_definition reaches the line: _parse_condition_definition
ParseCondition ==
    /\ compiled.status = "source"
    /\ compiled' = Line("parsed", compiled.definition,
                        parse_condition_definition(compiled.definition, LineRoles),
                        <<>>, FALSE)
    /\ raised' = parse_condition_definition(compiled.definition, LineRoles).err
    /\ UNCHANGED <<rules, domain, facts, facts_by_first_character, actions, module_attrs,
                   shuffle_randomly, grammar, runs, op, pre, fire_log>>

\* WorkingMemory.holds is called with the compiled condition
HoldsCondition ==
    /\ compiled.status = "parsed"
    /\ compiled.err = ""
    /\ \E bindings \in LikesBindings :
           /\ compiled' = [compiled EXCEPT
                              !.status = "evaluated",
                              !.bindings = bindings,
                              !.err = holds(WM, compiled.condition, bindings).err,
                              !.held = holds(WM, compiled.condition, bindings).val]
           /\ raised' = holds(WM, compiled.condition, bindings).err
    /\ UNCHANGED <<rules, domain, facts, facts_by_first_character, actions, module_attrs,
                   shuffle_randomly, grammar, runs, op, pre, fire_log>>

NextCompile == ParseCondition \/ HoldsCondition

SpecCompile == InitCompile /\ [][NextCompile]_vars

(***************************************************************************)
(* Claims about the compiler, checked under SpecCompile                    *)
(***************************************************************************)
\* C10: the line !((X likes Y) / (Y likes X)) is compiled without an exception, and
\* the condition compiled from it holds exactly when neither the fact 'x likes y' nor
\* the fact 'y likes x' is in working memory, x and y being the entities bound to X and Y.
C10_NegatedDisjunction ==
    compiled.definition = S6Line =>
        /\ compiled.status # "source" => compiled.err = ""
        /\ compiled.status = "evaluated" =>
               (compiled.held <=>
                    /\ Likes(compiled.bindings[RoleX.name], compiled.bindings[RoleY.name])
                           \notin facts
                    /\ Likes(compiled.bindings[RoleY.name], compiled.bindings[RoleX.name])
                           \notin facts)

(***************************************************************************)
(* Compiler: macro roles and effect definitions                            *)
(***************************************************************************)
\* the characters [a-z] of the macro-role pattern
Lowercase ==
    {"a", "b", "c", "d", "e", "f", "g", "h", "i", "j", "k", "l", "m",
     "n", "o", "p", "q", "r", "s", "t", "u", "v", "w", "x", "y", "z"}

\* the characters \w of the macro-role pattern
WordChars == Uppercase \cup Lowercase \cup Range(Digits) \cup {"_"}

RECURSIVE LowerRunEnd(_, _)
\* the place after the run of [a-z] that starts at i
LowerRunEnd(s, i) ==
    IF i > Len(s) \/ s[i] \notin Lowercase THEN i ELSE LowerRunEnd(s, i + 1)

\* where the match of [a-z]*\w ends, given the place j after the run of [a-z] that
\* starts at i: on the word character at j, else (backtracking) on the last
\* character of the run; 0 when there is no match
MacroRoleTail(i, s, j) ==
    IF j <= Len(s) /\ s[j] \in WordChars THEN j
    ELSE IF j > i THEN j - 1
    ELSE 0

\* where the match of \*:[A-Z][a-z]*\w that starts at i ends, 0 when there is none
MacroRoleEnd(s, i) ==
    IF i + 2 > Len(s) \/ s[i] # "*" \/ s[i + 1] # ":" \/ s[i + 2] \notin Uppercase THEN 0
    ELSE MacroRoleTail(i + 3, s, LowerRunEnd(s, i + 3))

RECURSIVE FindMacroRoles(_, _)
\* one step of re.findall, given where the match at i ends
FindMacroRolesNext(s, i, end) ==
    IF end = 0 THEN FindMacroRoles(s, i + 1)
    ELSE <<SubSeq(s, i, end)>> \o FindMacroRoles(s, end + 1)

\* re.findall('(\*:[A-Z][a-z]*\w)', s), from place i on
FindMacroRoles(s, i) ==
    IF i > Len(s) THEN <<>> ELSE FindMacroRolesNext(s, i, MacroRoleEnd(s, i))

RECURSIVE Replace(_, _, _)
\* str.replace(old, new): every occurrence of old, from the left
Replace(s, old, new) ==
    IF s = <<>> THEN <<>>
    ELSE IF StartsWith(s, old) THEN new \o Replace(SubSeq(s, Len(old) + 1, Len(s)), old, new)
    ELSE <<Head(s)>> \o Replace(Tail(s), old, new)

\* sub in s, for strings
HasSubstring(s, sub) == \E i \in 1..Len(s) : StartsWith(SubSeq(s, i, Len(s)), sub)

\* roles_referenced_by_this_macro_role: the names of the roles of the macro role's type
RolesReferenced(macro_role, roles) ==
    [k \in 1..Len(SelectSeq(roles, LAMBDA role : role.entity_type = Split(macro_role, ":")[2]))
        |-> SelectSeq(roles, LAMBDA role : role.entity_type = Split(macro_role, ":")[2])[k].name]

RECURSIVE ExpandMacroRoles(_, _, _, _)
\* the inner loop of the macro generators, from reference i of the expansion on:
\* macro role i is replaced, wherever it stands, by the role chosen for it
ExpandMacroRoles(definition, macro_roles, expansion, i) ==
    IF i > Len(expansion) THEN definition
    ELSE ExpandMacroRoles(Replace(definition, macro_roles[i], expansion[i]),
                          macro_roles, expansion, i + 1)

\* the definitions generated for the expansions itertools.product yields
MacroGenerated(definition, macro_roles, expansions) ==
    [e \in 1..Len(expansions) |-> ExpandMacroRoles(definition, macro_roles, expansions[e], 1)]

\* the macro roles of a definition and the expansions of them
MacroExpansions(macro_roles, roles) ==
    Product([m \in 1..Len(macro_roles) |-> RolesReferenced(macro_roles[m], roles)])

\* Compiler._macro_generate_precondition_definitions
macro_generate_precondition_definitions(precondition_definition, roles) ==
    MacroGenerated(precondition_definition, FindMacroRoles(precondition_definition, 1),
                   MacroExpansions(FindMacroRoles(precondition_definition, 1), roles))

\* Compiler._macro_generate_effect_definitions
macro_generate_effect_definitions(effect_definition, roles) ==
    MacroGenerated(effect_definition, FindMacroRoles(effect_definition, 1),
                   MacroExpansions(FindMacroRoles(effect_definition, 1), roles))

RECURSIVE FindParens(_, _)
\* one step of re.findall(r'\(.*?\)', s), given the place of the '(' and of the first
\* ')' after it (0 for none)
FindParensNext(s, open, close) ==
    IF open = 0 \/ close = 0 THEN <<>>
    ELSE <<SubSeq(s, open, close)>> \o FindParens(s, close + 1)

\* re.findall(r'\(.*?\)', s), from place i on
FindParens(s, i) ==
    FindParensNext(s, Find(s, "(", i),
                   IF Find(s, "(", i) = 0 THEN 0 ELSE Find(s, ")", Find(s, "(", i) + 1))

\* lines 533-538 of _parse_effect_definition, given what was parsed from the three
\* parts of the ternary expression
ternary_of(condition, effect_if_true, effect_if_false) ==
    IF condition.err # "" \/ effect_if_true.err # "" \/ effect_if_false.err # ""
    THEN ParseError
    ELSE Parsed(TernaryExpression(condition.condition, effect_if_true.condition,
                                  effect_if_false.condition))

RECURSIVE parse_effect_definition(_, _)
\* lines 517-538 of _parse_effect_definition, given the parts re.findall returned:
\* the unpacking raises ValueError unless there are three
parse_ternary(parts, roles) ==
    IF Len(parts) # 3 THEN ParseError
    ELSE ternary_of(parse_condition_definition(parts[2], roles),
                    parse_effect_definition(parts[1], roles),
                    parse_effect_definition(parts[3], roles))

\* lines 510-556 of _parse_effect_definition, given the definition stripped; an empty
\* effect () is None
parse_effect_stripped(effect_definition, roles) ==
    IF /\ Count(effect_definition, "(") # Count(effect_definition, ")")
       /\ Count(effect_definition, ")") # 1
    THEN ParseError
    ELSE IF /\ ~StartsWith(effect_definition, <<"(">>)
            /\ ~StartsWith(effect_definition, <<"!", "(">>)
         THEN ParseError
    ELSE IF effect_definition = <<"(", ")">> THEN Parsed(None)
    ELSE IF Count(effect_definition, "(") = 3
         THEN parse_ternary(FindParens(effect_definition, 1), roles)
    ELSE parse_predicate(effect_definition, roles)

\* Compiler._parse_effect_definition
parse_effect_definition(effect_definition, roles) ==
    parse_effect_stripped(Strip(effect_definition), roles)

RECURSIVE parse_preconditions(_, _, _)
\* lines 314-320 of _parse_rule_definition: the generated definitions are parsed in
\* order, from definition i on
parse_preconditions(definitions, roles, i) ==
    IF i > Len(definitions) THEN [err |-> "", conditions |-> <<>>]
    ELSE alternates_next(parse_condition_definition(definitions[i], roles),
                         parse_preconditions(definitions, roles, i + 1))

RECURSIVE parse_effects(_, _, _)
\* lines 340-346 of _parse_rule_definition, from definition i on
parse_effects(definitions, roles, i) ==
    IF i > Len(definitions) THEN [err |-> "", conditions |-> <<>>]
    ELSE alternates_next(parse_effect_definition(definitions[i], roles),
                         parse_effects(definitions, roles, i + 1))

\* lines 307-327 of _parse_rule_definition: the definitions a precondition line
\* stands for
precondition_definitions(precondition_definition, roles) ==
    IF HasSubstring(precondition_definition, <<"*", ":">>)
    THEN macro_generate_precondition_definitions(precondition_definition, roles)
    ELSE <<precondition_definition>>

\* lines 334-353 of _parse_rule_definition: the definitions an effect line stands for
effect_definitions(effect_definition, roles) ==
    IF HasSubstring(effect_definition, <<"*", ":">>)
    THEN macro_generate_effect_definitions(effect_definition, roles)
    ELSE <<effect_definition>>

(***************************************************************************)
(* A precondition or effect line with macro roles is compiled, then used   *)
(***************************************************************************)
RoleA == Role(<<"A">>, Person, FALSE, <<>>)
RoleB == Role(<<"B">>, Person, FALSE, <<>>)

w_happy == <<"h", "a", "p", "p", "y">>
al_is_happy == <<"a", "l", " ", "i", "s", " ", "h", "a", "p", "p", "y">>
bo_is_happy == <<"b", "o", " ", "i", "s", " ", "h", "a", "p", "p", "y">>

\* the roles declared by the rule the line belongs to, This appended after them
MacroRoleLists ==
    {<<RoleA, RoleB, RoleThis>>, <<RoleA, RoleQ, RoleThis>>, <<RoleA, RoleB, RoleN, RoleThis>>}

S2Line == <<"(", "*", ":", "P", "e", "r", "s", "o", "n", " ", "i", "s", " ", "h", "a", "p", "p", "y", ")">>
TwoMacroLine == <<"(", "*", ":", "P", "e", "r", "s", "o", "n", " ", "l", "i", "k", "e", "s", " ", "*", ":", "P", "e", "r", "s", "o", "n", ")">>

\* ternary effects: (A is sad) if (A is happy), (A is sad) if !(A is happy), and
\* !(A is happy) if (A is happy), each with the empty effect otherwise
TernaryLine == <<"(", "A", " ", "i", "s", " ", "s", "a", "d", ")", "(", "A", " ", "i", "s", " ", "h", "a", "p", "p", "y", ")", "(", ")">>
TernaryNotLine == <<"(", "A", " ", "i", "s", " ", "s", "a", "d", ")", "!", "(", "A", " ", "i", "s", " ", "h", "a", "p", "p", "y", ")", "(", ")">>
TernaryDeleteLine == <<"!", "(", "A", " ", "i", "s", " ", "h", "a", "p", "p", "y", ")", "(", "A", " ", "i", "s", " ", "h", "a", "p", "p", "y", ")", "(", ")">>

\* the lines compiled
MacroLines ==
    {S2Line,
     TwoMacroLine,
     <<"(", "*", ":", "P", "e", "r", "s", "o", "n", " ", "h", "a", "s", " ", "*", ":", "P", "r", "o", "p", ")">>,
     <<"!", "(", "*", ":", "P", "e", "r", "s", "o", "n", " ", "i", "s", " ", "h", "a", "p", "p", "y", ")">>,
     <<"(", "*", ":", "T", "h", "i", "n", "g", " ", "i", "s", " ", "h", "e", "r", "e", ")">>,
     <<"(", "A", " ", "i", "s", " ", "h", "a", "p", "p", "y", ")">>,
     TernaryLine, TernaryNotLine, TernaryDeleteLine}

\* the fact lines of the domain file
HappyFactLines == {al_is_happy, bo_is_happy}

\* a line of a rule definition: as written, as expanded and compiled, and as used
MacroLine(status, kind, definition, roles, definitions, parsed, bindings, held) ==
    [status |-> status, kind |-> kind, definition |-> definition, roles |-> roles,
     definitions |-> definitions, err |-> parsed.err, conditions |-> parsed.conditions,
     bindings |-> bindings, held |-> held]

InitMacro ==
    \E initial_facts \in SUBSET HappyFactLines, definition \in MacroLines,
       line_roles \in MacroRoleLists, kind \in {"precondition", "effect"} :
        \E order \in OrdersOf(initial_facts) :
            /\ rules = <<>>
            /\ domain = BuildDomain(People)
            /\ facts = BuildStore(order).facts
            /\ facts_by_first_character = BuildStore(order).idx
            /\ actions = <<>>
            /\ module_attrs = <<>>
            /\ shuffle_randomly = FALSE
            /\ raised = ""
            /\ op = NoCall
            /\ pre = EmptyStore
            /\ fire_log = <<>>
            /\ grammar = <<>>
            /\ runs = <<>>
            /\ compiled = MacroLine("source", kind, definition, line_roles, <<>>,
                                    [err |-> "", conditions |-> <<>>], <<>>, FALSE)

\* Compiler._parse_rule_definition reaches a line of the preconditions section
ParsePreconditionLine ==
    /\ compiled.status = "source"
    /\ compiled.kind = "precondition"
    /\ compiled' = MacroLine("parsed", compiled.kind, compiled.definition, compiled.roles,
                             precondition_definitions(compiled.definition, compiled.roles),
                             parse_preconditions(
                                 precondition_definitions(compiled.definition, compiled.roles),
                                 compiled.roles, 1),
                             <<>>, FALSE)
    /\ raised' = parse_preconditions(
                     precondition_definitions(compiled.definition, compiled.roles),
                     compiled.roles, 1).err
    /\ UNCHANGED <<rules, domain, facts, facts_by_first_character, actions, module_attrs,
                   shuffle_randomly, grammar, runs, op, pre, fire_log>>

\* Compiler._parse_rule_definition reaches a line of the effects section
ParseEffectLine ==
    /\ compiled.status = "source"
    /\ compiled.kind = "effect"
    /\ compiled' = MacroLine("parsed", compiled.kind, compiled.definition, compiled.roles,
                             effect_definitions(compiled.definition, compiled.roles),
                             parse_effects(
                                 effect_definitions(compiled.definition, compiled.roles),
                                 compiled.roles, 1),
                             <<>>, FALSE)
    /\ raised' = parse_effects(effect_definitions(compiled.definition, compiled.roles),
                               compiled.roles, 1).err
    /\ UNCHANGED <<rules, domain, facts, facts_by_first_character, actions, module_attrs,
                   shuffle_randomly, grammar, runs, op, pre, fire_log>>

\* the rule whose only section is the compiled line
LineRule(line) ==
    Rule(<<"L">>, FALSE, <<"'", "l", "'">>, 100, line.roles,
         IF line.kind = "precondition" THEN line.conditions ELSE <<>>,
         IF line.kind = "effect" THEN line.conditions ELSE <<>>,
         <<>>)

\* whether the loop over the candidate bindings of _attempt_rule_execution finds
\* bindings that trigger the rule, given its candidate pools
SomeBindingsTrigger(st, rule, pools) ==
    /\ pools.err = ""
    /\ ~pools.empty
    /\ first_triggering(st, rule, RequiredRolesInOrder(rule), Product(pools.pools), 1).found

\* the rule of the compiled preconditions is tested by _attempt_rule_execution
TestLineRule ==
    /\ compiled.status = "parsed"
    /\ compiled.kind = "precondition"
    /\ compiled.err = ""
    /\ compiled' = [compiled EXCEPT
                       !.status = "used",
                       !.held = SomeBindingsTrigger(
                                    Engine, LineRule(compiled),
                                    CandidatePools(Engine, LineRule(compiled),
                                                   RequiredRolesInOrder(LineRule(compiled)), 1))]
    /\ UNCHANGED <<rules, domain, facts, facts_by_first_character, actions, module_attrs,
                   shuffle_randomly, grammar, runs, raised, op, pre, fire_log>>

\* the bindings the rule of the compiled effects fires with
LineBindings(line) ==
    {b \in [{line.roles[i].name : i \in {j \in 1..Len(line.roles) : line.roles[j].required}}
               -> Range(People)] :
        \A r1, r2 \in DOMAIN b : b[r1] = b[r2] => r1 = r2}

\* the effects loop of _fire runs over the compiled effects
ApplyLineEffects ==
    /\ compiled.status = "parsed"
    /\ compiled.kind = "effect"
    /\ compiled.err = ""
    /\ \E bindings \in LineBindings(compiled) :
           /\ compiled' = [compiled EXCEPT !.status = "used", !.bindings = bindings]
           /\ facts' = apply_effects(Engine, LineRule(compiled), bindings, 1).wm.facts
           /\ facts_by_first_character' =
                  apply_effects(Engine, LineRule(compiled), bindings, 1).wm.idx
           /\ raised' = apply_effects(Engine, LineRule(compiled), bindings, 1).err
           /\ pre' = WM
    /\ UNCHANGED <<rules, domain, actions, module_attrs, shuffle_randomly, grammar, runs, op, fire_log>>

NextMacro == ParsePreconditionLine \/ ParseEffectLine \/ TestLineRule \/ ApplyLineEffects

SpecMacro == InitMacro /\ [][NextMacro]_vars

(***************************************************************************)
(* Claims about macro roles, checked under SpecMacro                       *)
(***************************************************************************)
RECURSIVE SubstitutedEach(_, _, _, _)
\* the definition from place i on with each occurrence of a macro role replaced by
\* the role chosen for that occurrence: occurrence k by expansion[k]
SubstitutedEach(s, i, expansion, k) ==
    IF i > Len(s) THEN <<>>
    ELSE IF MacroRoleEnd(s, i) # 0 /\ k <= Len(expansion)
         THEN expansion[k] \o SubstitutedEach(s, MacroRoleEnd(s, i) + 1, expansion, k + 1)
    ELSE <<s[i]>> \o SubstitutedEach(s, i + 1, expansion, k)

\* the Cartesian product of the roles each macro role occurrence of the line refers to
OccurrenceProduct(line) == MacroExpansions(FindMacroRoles(line.definition, 1), line.roles)

\* C11: a line with k >= 1 macro role occurrences compiles to exactly one predicate
\* for each element of the Cartesian product of the declared roles of the named
\* types, each occurrence replaced independently by the role chosen for it; and the
\* rule whose precondition is (*:Person is happy), with roles A and B of type Person,
\* has no binding tuple that passes when only one entity is happy.
C11_MacroExpansion ==
    /\ (compiled.status # "source" /\ FindMacroRoles(compiled.definition, 1) # <<>>) =>
           /\ compiled.err = ""
           /\ Len(compiled.conditions) = Len(OccurrenceProduct(compiled))
           /\ compiled.definitions =
                  [e \in 1..Len(OccurrenceProduct(compiled)) |->
                      SubstitutedEach(compiled.definition, 1, OccurrenceProduct(compiled)[e], 1)]
    /\ (/\ compiled.status = "used"
        /\ compiled.kind = "precondition"
        /\ compiled.definition = S2Line
        /\ compiled.roles = <<RoleA, RoleB, RoleThis>>
        /\ facts # HappyFactLines) => ~compiled.held

(***************************************************************************)
(* Claims about optional roles, checked under Spec                         *)
(***************************************************************************)
\* the names of the optional roles of the rule of the Action at place a that have no
\* entity bound in that Action
UnboundOptional(a) ==
    {RuleOf(a).roles[j].name : j \in {i \in 1..Len(RuleOf(a).roles) :
        /\ ~RuleOf(a).roles[i].required
        /\ ~RuleOf(a).roles[i].action_self_reference
        /\ RuleOf(a).roles[i].entity_name_recipe = <<>>
        /\ RuleOf(a).roles[i].name \notin DOMAIN actions[a].bindings}}

\* whether the predicate has one of the roles in its template
PredicateReferences(p, names) ==
    \E i \in 1..Len(p.template) : p.template[i].isrole /\ p.template[i].text \in names

\* whether the effect, its condition and its branches in the case of a ternary one,
\* references one of the roles
EffectReferences(effect, names) ==
    IF IsTernary(effect)
    THEN \/ PredicateReferences(effect.condition, names)
         \/ effect.effect_if_true # None /\ PredicateReferences(effect.effect_if_true, names)
         \/ effect.effect_if_false # None /\ PredicateReferences(effect.effect_if_false, names)
    ELSE PredicateReferences(effect, names)

\* the facts the effects of the Action at place a leave when those that reference an
\* unbound optional role are skipped, applied to the store the attempt began with
FactsWithSkips(a) ==
    apply_effects([Engine EXCEPT !.wm = pre],
                  [RuleOf(a) EXCEPT !.effects =
                      SelectSeq(@, LAMBDA effect : ~EffectReferences(effect, UnboundOptional(a)))],
                  actions[a].bindings, 1).wm.facts

\* C15: when a rule fires with an optional role unbound, its effects that reference
\* the role (additions, deletions and ternary effects alike) are skipped without an
\* exception and without a change to working memory, and the remaining effects and
\* the responses are still executed.
C15_UnboundOptionalSkipped ==
    \A a \in LastActions :
        (Fires[a].parent = 0 /\ UnboundOptional(a) # {}) =>
            /\ raised = ""
            /\ facts = FactsWithSkips(a)
            /\ \A i \in 1..Len(RuleOf(a).response_actions) :
                   \E e \in LastEvents :
                       fire_log[e].kind = "try" /\ fire_log[e].parent = a /\ fire_log[e].decl = i

(***************************************************************************)
(* Claims about execute, checked under Spec                                *)
(***************************************************************************)
\* the Actions recorded since the execute call in progress (or the last one made) began
AppendedByCall == (op.base + 1)..Len(actions)

\* those of them recorded by a firing of the rule loop, not by a response
TopLevelByCall == {a \in AppendedByCall : Fires[a].parent = 0}

C18_ResponsesOnlyChained ==
    \A a \in 1..Len(actions) :
        RuleOf(a).response_action =>
            /\ Fires[a].parent \in 1..(a - 1)
            /\ Fires[a].decl \in 1..Len(RuleOf(Fires[a].parent).response_actions)
            /\ RuleOf(Fires[a].parent).response_actions[Fires[a].decl].action_name
                   = actions[a].name

\* the rule loop has passed over a response rule that stands first and whose
\* preconditions held, and fired the rule after it, which then fired that response
C18_Witness ==
    /\ Len(rules) > 1
    /\ rules[1].response_action
    /\ rules[1].probability = 100
    /\ triggers(pre, rules[1], (RoleX.name :> Alice), {}) = Returned(TRUE)
    /\ \E a \in LastActions :
           /\ Fires[a].parent = 0
           /\ actions[a].name = rules[2].action_name
           /\ \E b \in LastActions : Fires[b].parent = a /\ actions[b].name = rules[1].action_name

\* the rule of response i declared by the rule of the Action at place a
ResponseRule(a, i) == RuleNamed(rules, RuleOf(a).response_actions[i].action_name)

\* the responses of the Action at place a that the last attempt tested and found
\* triggered, so that a value was drawn for them
DrawnFor(a) ==
    {i \in 1..Len(RuleOf(a).response_actions) :
        /\ \E j \in LastEvents :
               fire_log[j].kind = "try" /\ fire_log[j].parent = a /\ fire_log[j].decl = i
        /\ TestOf(a, i).triggered}

nobody == <<"n", "o">>

\* the names actions_involving is asked about: those of the entities, and one that no
\* entity has
NamesAsked == {Entities(domain)[i].name : i \in 1..Len(Entities(domain))} \cup {nobody}

\* the recorded Actions that have an entity of that name among their bound entities,
\* in firing order
ActionsNaming(entity_name) ==
    SelectSeq(actions, LAMBDA action : \E entity \in ActionEntities(action) :
                                           entity.name = entity_name)

\* C20: for every name, actions_involving returns exactly the recorded Actions that
\* have an entity of that name among their bound entities (the Action entity bound to
\* This included), in firing order, and the empty list when no entity has that name.
C20_ActionsInvolving ==
    \A entity_name \in NamesAsked :
        /\ actions_involving(actions, domain, entity_name) = ActionsNaming(entity_name)
        /\ ~NameTaken(domain, entity_name) => actions_involving(actions, domain, entity_name) = <<>>

\* C21: every call execute(n) of a rule set that compiled returns: the response
\* firings that one firing starts nest only to a bounded depth and then give control
\* back to the attempt, so no call ends in the interpreter's RecursionError.
C21_FiringsReturn == raised # "RecursionError"

(***************************************************************************)
(* Claims about the effects of one firing, checked under Spec              *)
(***************************************************************************)
IsAdd(effect) == ~IsTernary(effect) /\ ~effect.negated
IsDelete(effect) == ~IsTernary(effect) /\ effect.negated

\* the Actions the last attempt recorded by a firing of two effects that no other
\* firing followed, so that the store is as those two effects left it
FiredTwoEffects ==
    {a \in LastActions :
        /\ raised = ""
        /\ LastActions = {a}
        /\ Len(RuleOf(a).effects) = 2}

\* a ternary effect that tests the predicate and adds a fact on either branch
TestsAndAdds(effect, predicate) ==
    /\ IsTernary(effect)
    /\ effect.condition = predicate
    /\ effect.effect_if_true # None /\ IsAdd(effect.effect_if_true)
    /\ effect.effect_if_false # None /\ IsAdd(effect.effect_if_false)

\* the fact the ternary effect added is that of the branch named, and the fact of the
\* other branch is there only if it was there before the firing
TookBranch(effect, bindings, branch) ==
    /\ ground(IF branch THEN effect.effect_if_true ELSE effect.effect_if_false, bindings)
           \in facts
    /\ ground(IF branch THEN effect.effect_if_false ELSE effect.effect_if_true, bindings)
           \notin facts \ pre.facts

\* what C26 says of a firing with the effects first and second, in that order
InDeclarationOrder(first, second, bindings) ==
    /\ (IsAdd(first) /\ IsDelete(second) /\ first.template = second.template)
           => ground(first, bindings) \notin facts
    /\ (IsDelete(first) /\ IsAdd(second) /\ first.template = second.template)
           => ground(second, bindings) \in facts
    /\ (IsAdd(first) /\ TestsAndAdds(second, first))
           => TookBranch(second, bindings, TRUE)
    /\ (TestsAndAdds(first, second) /\ IsAdd(second))
           => /\ TookBranch(first, bindings, holds(pre, second, bindings).val)
              /\ ground(second, bindings) \in facts

\* C26: within one firing the effects are applied to working memory one at a time in
\* declaration order, and the condition of a ternary effect is evaluated against the
\* working memory as the earlier effects of the same firing left it: a fact added
\* and then deleted is absent after the firing, a fact deleted and then added is
\* present, a ternary effect that follows the addition of the fact it tests takes
\* its first branch, and one that precedes it takes the branch the memory before the
\* firing decides.
C26_EffectsInOrder ==
    \A a \in FiredTwoEffects :
        InDeclarationOrder(RuleOf(a).effects[1], RuleOf(a).effects[2], actions[a].bindings)

\* a firing has added a fact and then tested it: the first branch was taken although
\* the fact was not there when the firing began
C26_Witness ==
    \E a \in FiredTwoEffects :
        /\ IsAdd(RuleOf(a).effects[1])
        /\ TestsAndAdds(RuleOf(a).effects[2], RuleOf(a).effects[1])
        /\ ground(RuleOf(a).effects[1], actions[a].bindings) \notin pre.facts
        /\ TookBranch(RuleOf(a).effects[2], actions[a].bindings, TRUE)

(***************************************************************************)
(* Claims about one attempt, checked under Spec                            *)
(***************************************************************************)
\* the bindings of the rule's required roles to distinct entities of the roles' types
RequiredBindings(rule, dom) ==
    {b \in [{RequiredRolesInOrder(rule)[j].name : j \in 1..Len(RequiredRolesInOrder(rule))}
               -> Range(Entities(dom))] :
        /\ \A j \in 1..Len(RequiredRolesInOrder(rule)) :
               b[RequiredRolesInOrder(rule)[j].name].type
                   = RequiredRolesInOrder(rule)[j].entity_type
        /\ \A r1, r2 \in DOMAIN b : b[r1] = b[r2] => r1 = r2}

\* every precondition of the rule that references no optional role holds under b
RequiredPreconditionsHold(wm, rule, b) ==
    \A i \in 1..Len(rule.preconditions) :
        ~OptionalRoles(rule.preconditions[i]) => holds(wm, rule.preconditions[i], b).val

\* the candidate binding tuples of the rule that satisfy its preconditions
SatisfyingBindings(wm, dom, rule) ==
    {b \in RequiredBindings(rule, dom) : RequiredPreconditionsHold(wm, rule, b)}

\* a rule the rule loop of an attempt tests and finds such a tuple for
CanDraw(wm, dom, rule) ==
    /\ ~rule.response_action
    /\ \A j \in 1..Len(rule.roles) :
           rule.roles[j].required => HasType(dom, rule.roles[j].entity_type)
    /\ SatisfyingBindings(wm, dom, rule) # {}

\* the top-level firings the attempt that is this step has logged
StepTopFirings ==
    {j \in (Len(fire_log) + 1)..Len(fire_log') :
        fire_log'[j].kind = "fire" /\ fire_log'[j].parent = 0}

\* what C27 says of the one draw of the attempt: it is made for the first rule, in
\* the order the loop walks them in, that has a satisfying tuple, and for such a
\* tuple; the rule fires with that tuple if the value is below its probability, and
\* otherwise nothing is recorded and working memory is left as it was
OneDraw(drew) ==
    \E i \in 1..Len(rules') :
        /\ rules'[i].action_name = drew.rule
        /\ CanDraw(WM, domain, rules'[i])
        /\ \A h \in 1..(i - 1) : ~CanDraw(WM, domain, rules'[h])
        /\ drew.bindings \in SatisfyingBindings(WM, domain, rules'[i])
        /\ IF drew.draw < rules'[i].probability
           THEN /\ StepTopFirings = {Len(fire_log) + 1}
                /\ Len(actions') > Len(actions)
                /\ actions'[Len(actions) + 1].name = rules'[i].action_name
                /\ \A r \in DOMAIN drew.bindings :
                       actions'[Len(actions) + 1].bindings[r] = drew.bindings[r]
           ELSE /\ fire_log' = fire_log
                /\ actions' = actions
                /\ facts' = facts
                /\ domain' = domain

\* C27: in one attempt, as soon as a non-response rule has a candidate binding tuple
\* that satisfies its preconditions, exactly one probability draw is made for it and
\* the attempt ends with it: the rule fires if the value drawn is below its
\* probability and otherwise nothing fires; no later tuple and no later rule is
\* tried, so that an attempt makes at most one top-level firing, and none when no
\* rule has such a tuple.
C27_OneDrawPerAttempt ==
    [][(op.todo > 0 /\ raised' = "") =>
           /\ Cardinality(StepTopFirings) <= 1
           /\ IF \E i \in 1..Len(rules) : CanDraw(WM, domain, rules[i])
              THEN Len(op'.drew) = 1 /\ OneDraw(op'.drew[1])
              ELSE op'.drew = <<>> /\ StepTopFirings = {} /\ actions' = actions]_vars

\* an attempt has ended on a failed draw for the first of two rules whose
\* preconditions held, and recorded nothing
C27_Witness ==
    /\ op.n > 0
    /\ raised = ""
    /\ LastActions = {}
    /\ Len(op.drew) = 1
    /\ op.drew[1].rule = rules[1].action_name
    /\ op.drew[1].draw >= rules[1].probability
    /\ Len(rules) > 1
    /\ CanDraw(pre, domain, rules[2])

(***************************************************************************)
(* Claims about the bindings a rule fires with, checked under Spec         *)
(***************************************************************************)
\* the Actions the last attempt recorded by a firing of the rule loop
TopLevelFired == {a \in LastActions : Fires[a].parent = 0}

\* the required-role bindings the preconditions of the attempt's rule held under
\* when the value was drawn
ChosenBindings == op.drew[1].bindings

\* C28: whenever a rule fires from a top-level attempt, every precondition of the
\* rule that references no optional role holds in working memory, as it was at the
\* moment of the draw, under the chosen required-role bindings: the preconditions on
\* a single required role that the per-tuple test leaves out, and the OR-expressions,
\* included.
C28_PreconditionsHeldAtDraw ==
    \A a \in TopLevelFired :
        /\ Len(op.drew) = 1
        /\ op.drew[1].rule = actions[a].name
        /\ \A r \in DOMAIN ChosenBindings : actions[a].bindings[r] = ChosenBindings[r]
        /\ \A i \in 1..Len(RuleOf(a).preconditions) :
               ~OptionalRoles(RuleOf(a).preconditions[i])
                   => holds(pre, RuleOf(a).preconditions[i], ChosenBindings) = Returned(TRUE)

\* a rule has fired that has a precondition left out of the per-tuple test and an
\* OR-expression that is not, while another entity of the domain failed the first
C28_Witness ==
    \E a \in TopLevelFired :
        /\ \E i \in get_preconditions_to_ignore(RuleOf(a)) :
               \E r \in RequiredRoles(RuleOf(a).preconditions[i]) :
                   \E e \in Range(Entities(domain)) :
                       /\ e.type = ChosenBindings[r].type
                       /\ ~holds(pre, RuleOf(a).preconditions[i], (r :> e)).val
        /\ \E i \in 1..Len(RuleOf(a).preconditions) :
               /\ RuleOf(a).preconditions[i].or_expression
               /\ i \notin get_preconditions_to_ignore(RuleOf(a))
        /\ \E i \in get_preconditions_to_ignore(RuleOf(a)) :
               RuleOf(a).preconditions[i].or_expression

\* the optional roles of the rule, in declaration order
OptionalRolesInOrder(rule) ==
    SelectSeq(rule.roles, LAMBDA role : /\ ~role.required
                                        /\ ~role.action_self_reference
                                        /\ role.entity_name_recipe = <<>>)

\* the bindings as they stand when optional role q of the rule is bound: those of the
\* draw, and those the Action has for the optional roles declared before q
BoundBefore(rule, bindings, drew, q) ==
    [r \in DOMAIN drew.bindings
           \cup ({OptionalRolesInOrder(rule)[j].name : j \in 1..(q - 1)} \cap DOMAIN bindings)
        |-> bindings[r]]

\* whether the entity is not bound and every precondition of the rule holds with the
\* bindings extended by it
Fits(wm, rule, role, bound, entity) ==
    /\ \A r \in DOMAIN bound : bound[r] # entity
    /\ \A i \in 1..Len(rule.preconditions) :
           holds(wm, rule.preconditions[i], Bind(bound, role.name, entity)) = Returned(TRUE)

\* the entities of the role's type that fit, in domain order
Fitting(wm, dom, rule, role, bound) ==
    SelectSeq(IF HasType(dom, role.entity_type) THEN DomainGet(dom, role.entity_type) ELSE <<>>,
              LAMBDA entity : Fits(wm, rule, role, bound, entity))

\* what C29 says of optional role q of the rule, given the bindings of the Action
\* recorded: the first entity that fits, or none
BoundToFirstFit(rule, bindings, drew, q) ==
    IF Fitting(WM, domain, rule, OptionalRolesInOrder(rule)[q],
               BoundBefore(rule, bindings, drew, q)) = <<>>
    THEN OptionalRolesInOrder(rule)[q].name \notin DOMAIN bindings
    ELSE /\ OptionalRolesInOrder(rule)[q].name \in DOMAIN bindings
         /\ bindings[OptionalRolesInOrder(rule)[q].name]
                = Head(Fitting(WM, domain, rule, OptionalRolesInOrder(rule)[q],
                               BoundBefore(rule, bindings, drew, q)))

\* what C29 says of the attempt whose draw passed: the rule fires, with each of its
\* optional roles bound to the first entity that fits or left unbound
FiresWithOptionalBound(rule, drew) ==
    /\ Len(actions') > Len(actions)
    /\ actions'[Len(actions) + 1].name = rule.action_name
    /\ \A q \in 1..Len(OptionalRolesInOrder(rule)) :
           BoundToFirstFit(rule, actions'[Len(actions) + 1].bindings, drew, q)

\* C29: for each optional role of a rule that is about to fire, whatever the number
\* of its optional roles, the entity bound to the role is the first entity, in
\* domain order of the role's type, that is not already bound and under which every
\* precondition of the rule holds with the bindings extended by it; if there is no
\* such entity the role stays unbound and the rule still fires.
C29_OptionalRoleFirstFit ==
    [][(/\ op.todo > 0
        /\ Len(op'.drew) = 1
        /\ op'.drew[1].draw < RuleNamed(rules, op'.drew[1].rule).probability
        /\ OptionalRolesInOrder(RuleNamed(rules, op'.drew[1].rule)) # <<>>)
           => FiresWithOptionalBound(RuleNamed(rules, op'.drew[1].rule), op'.drew[1])]_vars

\* the entity-creating roles of the rule
CreationRoles(rule) ==
    {rule.roles[j] : j \in {i \in 1..Len(rule.roles) : rule.roles[i].entity_name_recipe # <<>>}}

\* the Action at place a has an entity of the role's type bound to the role, which is
\* registered in the domain and is bound to no entity-creating role of another Action
BindsCreated(a, role) ==
    /\ role.name \in DOMAIN actions[a].bindings
    /\ actions[a].bindings[role.name].type = role.entity_type
    /\ HasType(domain, role.entity_type)
    /\ actions[a].bindings[role.name] \in Range(DomainGet(domain, role.entity_type))
    /\ \A b \in 1..Len(actions) :
           \A other \in CreationRoles(RuleOf(b)) :
               (b # a /\ other.name \in DOMAIN actions[b].bindings)
                   => actions[b].bindings[other.name] # actions[a].bindings[role.name]

\* C30: every firing of a rule that declares an entity-creating role, from the rule
\* loop of an attempt or as a response, synthesizes a new entity of the role's type,
\* registers it in the domain and binds it to the role in the bindings of the Action
\* recorded.
C30_CreatedEntityBound ==
    \A a \in 1..Len(actions) :
        \A role \in CreationRoles(RuleOf(a)) : BindsCreated(a, role)

(***************************************************************************)
(* Compiler: the roles section of a rule definition                        *)
(***************************************************************************)
\* what _parse_role_definition returns: the Role, or the exception raised
RoleParsed(role) == [err |-> "", role |-> role]
RoleError(err) == [err |-> err, role |-> None]

\* lines 451-455 of _parse_role_definition, given role_definition[1:].split('=') and,
\* when that has two parts, the split(':') of the second: each unpacks into two names
parse_creation_role(name_and_rest, recipe_and_type) ==
    IF Len(name_and_rest) # 2 \/ Len(recipe_and_type) # 2 THEN RoleError("ValueError")
    ELSE RoleParsed(Role(name_and_rest[1], recipe_and_type[2], FALSE, recipe_and_type[1]))

\* lines 456-464 of _parse_role_definition, given role_definition.split(':'): the
\* message built for the name 'This' is not raised
parse_declared_role(parts) ==
    IF Len(parts) # 2 THEN RoleError("ValueError")
    ELSE RoleParsed(Role(IF StartsWith(parts[1], <<"?">>) THEN Tail(parts[1]) ELSE parts[1],
                         Strip(parts[2]),
                         StartsWith(parts[1], <<"?">>),
                         <<>>))

\* the second split of the '+' branch, made when the first gave two parts
RecipeAndType(name_and_rest) ==
    IF Len(name_and_rest) = 2 THEN Split(name_and_rest[2], ":") ELSE <<>>

\* Compiler._parse_role_definition
parse_role_definition(role_definition) ==
    IF StartsWith(Strip(role_definition), <<"+">>)
    THEN parse_creation_role(Split(Tail(Strip(role_definition)), "="),
                             RecipeAndType(Split(Tail(Strip(role_definition)), "=")))
    ELSE parse_declared_role(Split(Strip(role_definition), ":"))

\* one round of the loop over the role definitions, given the role parsed from the
\* definition and the roles parsed from those after it
parse_roles_next(parsed, rest) ==
    IF parsed.err # "" THEN [err |-> parsed.err, roles |-> <<>>]
    ELSE IF rest.err # "" THEN rest
    ELSE [err |-> "", roles |-> <<parsed.role>> \o rest.roles]

RECURSIVE parse_roles_from(_, _)
\* lines 286-300 of _parse_rule_definition, from role definition i on: This is
\* appended after the roles declared
parse_roles_from(role_definitions, i) ==
    IF i > Len(role_definitions) THEN [err |-> "", roles |-> <<Role(This, ActionType, FALSE, <<>>)>>]
    ELSE IF IsBlank(role_definitions[i]) THEN parse_roles_from(role_definitions, i + 1)
    ELSE IF Len(SelectSeq(Split(role_definitions[i], ":"), LAMBDA part : ~IsBlank(part))) < 2
         THEN [err |-> "Exception", roles |-> <<>>]
    ELSE parse_roles_next(parse_role_definition(role_definitions[i]),
                          parse_roles_from(role_definitions, i + 1))

\* lines 258-259 and 284-300 of _parse_rule_definition: the component after 'roles:',
\* which the loop over the components passes over when it is blank
parse_roles(component) ==
    IF IsBlank(component) THEN [err |-> "", roles |-> <<>>]
    ELSE parse_roles_from(Split(component, "\n"), 1)

(***************************************************************************)
(* A roles section is compiled, and the rule that declares it is executed  *)
(***************************************************************************)
\* the role definitions a roles section is written with
RoleDefinitions ==
    {<<"X", ":", "P", "e", "r", "s", "o", "n">>,
     <<"?", "Q", ":", "P", "e", "r", "s", "o", "n">>,
     <<"T", "h", "i", "s", ":", "P", "e", "r", "s", "o", "n">>,
     <<"?", "T", "h", "i", "s", ":", "P", "e", "r", "s", "o", "n">>,
     <<"+", "T", "h", "i", "s", "=", "{", "X", "}", "'", "s", " ", "N", ":", "P", "r", "o", "p">>,
     <<"+", "N", "=", "{", "X", "}", "'", "s", " ", "N", ":", "P", "r", "o", "p">>,
     <<"X">>,
     <<"X", ":", "P", "e", "r", "s", "o", "n", ":", "T", "h", "i", "n", "g">>,
     <<>>}

\* the most role definitions in a roles section
MaxRoleLines == 2

\* the roles sections: one role definition to a line
RolesSections ==
    {JoinWith(definitions, <<"\n">>) :
        definitions \in UNION {[1..n -> RoleDefinitions] : n \in 1..MaxRoleLines}}

\* a roles section: as written, as compiled, and as executed
Section(status, component, parsed) ==
    [status |-> status, component |-> component, err |-> parsed.err, roles |-> parsed.roles]

InitRoles ==
    \E component \in RolesSections :
        /\ rules = <<>>
        /\ domain = BuildDomain(People)
        /\ facts = {}
        /\ facts_by_first_character = <<>>
        /\ actions = <<>>
        /\ module_attrs = <<>>
        /\ shuffle_randomly = FALSE
        /\ raised = ""
        /\ op = NoCall
        /\ pre = EmptyStore
        /\ fire_log = <<>>
        /\ grammar = <<>>
        /\ runs = <<>>
        /\ compiled = Section("source", component, [err |-> "", roles |-> <<>>])

\* Compiler._parse_rule_definition reaches the roles section
ParseRoles ==
    /\ compiled.status = "source"
    /\ compiled' = Section("parsed", compiled.component, parse_roles(compiled.component))
    /\ raised' = parse_roles(compiled.component).err
    /\ UNCHANGED <<rules, domain, facts, facts_by_first_character, actions, module_attrs,
                   shuffle_randomly, grammar, runs, op, pre, fire_log>>

\* the rule whose only section is the compiled roles section
SectionRule(section) ==
    Rule(<<"R">>, FALSE, <<"\"", "r", "\"">>, 100, section.roles, <<>>, <<>>, <<>>)

\* RuleEngine.__init__ with the compiled rule, and execute(1)
ExecuteCompiled ==
    /\ compiled.status = "parsed"
    /\ compiled.err = ""
    /\ \E st \in attempt_rule_execution(
                    EngineState(<<SectionRule(compiled)>>, domain, WM, actions, module_attrs,
                                fire_log), FALSE) :
           /\ rules' = st.rules
           /\ domain' = st.domain
           /\ facts' = st.wm.facts
           /\ facts_by_first_character' = st.wm.idx
           /\ actions' = st.actions
           /\ module_attrs' = st.attrs
           /\ fire_log' = st.log
           /\ raised' = st.err
           /\ pre' = WM
    /\ compiled' = [compiled EXCEPT !.status = "executed"]
    /\ UNCHANGED <<shuffle_randomly, grammar, runs, op>>

NextRoles == ParseRoles \/ ExecuteCompiled

SpecRoles == InitRoles /\ [][NextRoles]_vars

(***************************************************************************)
(* Claims about the roles section, checked under SpecRoles                 *)
(***************************************************************************)
\* the role name a role definition is written with: what stands before the ':' or,
\* in an entity-creating role, before the '=', the leading '?' or '+' taken off
DeclaredName(role_definition) ==
    IF StartsWith(Strip(role_definition), <<"+">>)
    THEN Split(Tail(Strip(role_definition)), "=")[1]
    ELSE IF StartsWith(Strip(role_definition), <<"?">>)
         THEN Split(Tail(Strip(role_definition)), ":")[1]
    ELSE Split(Strip(role_definition), ":")[1]

\* whether a line of the roles section declares a role named This
DeclaresThis(component) ==
    \E i \in 1..Len(Split(component, "\n")) : DeclaredName(Split(component, "\n")[i]) = This

\* C16: compiling a roles section that declares a role named This, required or
\* optional, fails with an error, and in every compiled rule the only role named This
\* is the one added automatically.
C16_ThisRejected ==
    compiled.status # "source" =>
        /\ DeclaresThis(compiled.component) => compiled.err # ""
        /\ compiled.err = "" =>
               \A j \in 1..Len(compiled.roles) :
                   compiled.roles[j].name = This =>
                       /\ j = Len(compiled.roles)
                       /\ compiled.roles[j] = Role(This, ActionType, FALSE, <<>>)

(***************************************************************************)
(* GrammarEngine: the grammar definition file                              *)
(***************************************************************************)
\* The elements of a rule body and of an intermediate derivation: a NonterminalSymbol,
\* a VariableReference, a (NonterminalSymbol, "@variable") tuple or a string. The
\* field text is the symbol's name, the variable's name or the string itself.
Nonterminal(name) == [kind |-> "symbol", text |-> name, variable |-> <<>>]
VariableReference(name) == [kind |-> "variable", text |-> name, variable |-> <<>>]
WriteDirective(name, variable_to_write_to) == [kind |-> "tuple", text |-> name, variable |-> variable_to_write_to]
Terminal(text) == [kind |-> "str", text |-> text, variable |-> <<>>]

\* the name of VariableReference(name=None)
NoName == <<"None">>

\* lines 218-235 of _parse_rule_definition: the element a reference <...> stands for,
\* given what stands between the brackets and its parts around '@'
reference_element(referenced_symbol_name, parts) ==
    IF Len(parts) # 2
    THEN IF Strip(referenced_symbol_name) = <<>> THEN VariableReference(NoName)
         ELSE Nonterminal(Strip(referenced_symbol_name))
    ELSE IF Strip(parts[1]) = <<>> THEN VariableReference(parts[2])
    ELSE IF parts[2] # <<>> THEN WriteDirective(Strip(parts[1]), <<"@">> \o parts[2])
    ELSE Nonterminal(Strip(parts[1]))

\* the terminal symbol read so far, appended to the rule body unless it is empty
terminal_read(terminal_symbol) ==
    IF terminal_symbol # <<>> THEN <<Terminal(terminal_symbol)>> ELSE <<>>

RECURSIVE scan_rule_body(_, _, _, _, _)
\* lines 204-249 of _parse_rule_definition: the rule body, read one character at a time
scan_rule_body(rule_body_str, i, iterating_over_reference, referenced_symbol_name, terminal_symbol) ==
    IF i > Len(rule_body_str) THEN terminal_read(terminal_symbol)
    ELSE IF iterating_over_reference
    THEN IF rule_body_str[i] # ">"
         THEN scan_rule_body(rule_body_str, i + 1, TRUE,
                             referenced_symbol_name \o <<rule_body_str[i]>>, terminal_symbol)
         ELSE <<reference_element(referenced_symbol_name, Split(referenced_symbol_name, "@"))>>
              \o scan_rule_body(rule_body_str, i + 1, FALSE, <<>>, terminal_symbol)
    ELSE IF rule_body_str[i] = "<"
    THEN terminal_read(terminal_symbol) \o scan_rule_body(rule_body_str, i + 1, TRUE, <<>>, <<>>)
    ELSE scan_rule_body(rule_body_str, i + 1, FALSE, referenced_symbol_name,
                        terminal_symbol \o <<rule_body_str[i]>>)

\* _get_symbol(name, create_if_undefined=True): the list of symbols afterwards
get_symbol_or_create(symbols, nonterminal_symbol_name) ==
    IF Contains(symbols, nonterminal_symbol_name) THEN symbols
    ELSE Append(symbols, nonterminal_symbol_name)

RECURSIVE symbols_referenced(_, _, _)
\* the list of symbols once every symbol a rule body refers to has been looked up
symbols_referenced(symbols, rule_body, i) ==
    IF i > Len(rule_body) THEN symbols
    ELSE symbols_referenced(IF rule_body[i].kind \in {"symbol", "tuple"}
                            THEN get_symbol_or_create(symbols, rule_body[i].text)
                            ELSE symbols,
                            rule_body, i + 1)

\* ProductionRule(head, body): a rule is found from its head's name
ProductionRule(head, body) == [head |-> head, body |-> body]

\* lines 250-252: the engine with the production rule appended
with_production_rule(engine, rule_head_name, rule_body) ==
    [engine EXCEPT !.symbols = symbols_referenced(get_symbol_or_create(@, rule_head_name),
                                                  rule_body, 1),
                   !.rules = Append(@, ProductionRule(rule_head_name, rule_body))]

\* _parse_rule_definition
parse_production(engine, rule_head_name, rule_body_str) ==
    with_production_rule(engine, rule_head_name,
                         scan_rule_body(rule_body_str, 1, FALSE, <<>>, <<>>))

\* NonterminalSymbol.rules: the production rules of a symbol, in definition order
RulesOf(engine, name) == SelectSeq(engine.rules, LAMBDA rule : rule.head = name)

\* the place of the first occurrence of sub in s from position i on, 0 when none
RECURSIVE FindSub(_, _, _)
FindSub(s, sub, i) ==
    IF i + Len(sub) - 1 > Len(s) THEN 0
    ELSE IF SubSeq(s, i, i + Len(sub) - 1) = sub THEN i
    ELSE FindSub(s, sub, i + 1)

RECURSIVE SplitOn(_, _)
\* str.split(sep), for a separator of several characters
SplitOn(s, sep) ==
    IF FindSub(s, sep, 1) = 0 THEN <<s>>
    ELSE <<SubSeq(s, 1, FindSub(s, sep, 1) - 1)>>
         \o SplitOn(SubSeq(s, FindSub(s, sep, 1) + Len(sep), Len(s)), sep)

RECURSIVE collapse_tabs(_)
\* lines 96-97: consecutive tab characters are replaced until none are left
collapse_tabs(line) ==
    IF HasSubstring(line, <<"\t", "\t">>) THEN collapse_tabs(Replace(line, <<"\t", "\t">>, <<"\t">>))
    ELSE line

\* a step of the construction that failed with an exception: there is no engine
GrammarError(engine, err) == [engine EXCEPT !.err = err, !.status = "failed"]

RuleBodies(err, bodies) == [err |-> err, bodies |-> bodies]

\* line 145: the values of a corpus are added to the rule bodies read so far
rule_bodies_next(values, rest) ==
    IF rest.err # "" THEN rest ELSE RuleBodies("", values \o rest.bodies)

RECURSIVE rule_bodies_from(_, _, _)
\* lines 136-145: the rule bodies, a corpus reference replaced by the lines of the
\* corpus file; corpora maps the name of each corpus file that exists to its content
rule_bodies_from(raw_rule_bodies, corpora, i) ==
    IF i > Len(raw_rule_bodies) THEN RuleBodies("", <<>>)
    ELSE IF ~StartsWith(raw_rule_bodies[i], <<"$">>)
    THEN rule_bodies_next(<<raw_rule_bodies[i]>>, rule_bodies_from(raw_rule_bodies, corpora, i + 1))
    ELSE IF Tail(raw_rule_bodies[i]) \notin DOMAIN corpora THEN RuleBodies("IOError", <<>>)
    ELSE rule_bodies_next(Split(corpora[Tail(raw_rule_bodies[i])], "\n"),
                          rule_bodies_from(raw_rule_bodies, corpora, i + 1))

RECURSIVE parse_productions(_, _, _, _)
\* lines 148-149
parse_productions(engine, rule_head, rule_bodies, i) ==
    IF i > Len(rule_bodies) THEN engine
    ELSE parse_productions(parse_production(engine, rule_head, rule_bodies[i]),
                           rule_head, rule_bodies, i + 1)

\* lines 132-149, given the rule bodies
parse_rule_bodies(engine, rule_head, rule_bodies) ==
    IF rule_bodies.err # "" THEN GrammarError(engine, rule_bodies.err)
    ELSE parse_productions(engine, rule_head, rule_bodies.bodies, 1)

\* lines 104-149, given the parts of the line around '->'
parse_grammar_rule(engine, corpora, parts) ==
    IF Len(parts) # 2 THEN GrammarError(engine, "Exception")
    ELSE IF Count(parts[2], "<") # Count(parts[2], ">") THEN GrammarError(engine, "Exception")
    ELSE IF Strip(parts[1]) = <<>> \/ Strip(parts[2]) = <<>>
    THEN GrammarError(engine, "Exception")
    ELSE parse_rule_bodies(engine, Strip(parts[1]),
                           rule_bodies_from(Split(Strip(parts[2]), "|"), corpora, 1))

\* lines 91-149 for one line of the file, its leading whitespace removed
parse_grammar_line(engine, corpora, line) ==
    IF line = <<>> \/ StartsWith(line, <<"#">>) THEN engine
    ELSE parse_grammar_rule(engine, corpora, SplitOn(collapse_tabs(line), <<"-", ">">>))

RECURSIVE parse_grammar_lines(_, _, _, _)
\* line 90: the lines in file order, up to the first that raises
parse_grammar_lines(engine, corpora, lines, i) ==
    IF i > Len(lines) \/ engine.err # "" THEN engine
    ELSE parse_grammar_lines(parse_grammar_line(engine, corpora, LStrip(lines[i], Whitespace)),
                             corpora, lines, i + 1)

\* _parse_grammar_definition_file
parse_grammar_definition_file(engine, grammar_definition, corpora) ==
    parse_grammar_lines(engine, corpora, Split(grammar_definition, "\n"), 1)

\* _validate_grammar: a symbol without production rules is an error
validate_grammar(engine) ==
    IF engine.err = "" /\ \E i \in 1..Len(engine.symbols) : RulesOf(engine, engine.symbols[i]) = <<>>
    THEN GrammarError(engine, "Exception")
    ELSE engine

\* lines 41-53 of __init__: initial_state is None (no_state) or a dictionary of strings.
\* self.state is assigned inside the loop over the items, so an empty dictionary
\* leaves the attribute unset. The other fields follow the generate call in progress:
\* its status, its intermediate derivation, what it returned, the iterations of its
\* while loop, the calls made so far, and the reads and writes of state variables it
\* has made, in order.
NewGrammarEngine(no_state, initial_state) ==
    [symbols |-> <<>>, rules |-> <<>>, err |-> "",
     state |-> IF no_state THEN <<>> ELSE initial_state,
     has_state |-> no_state \/ DOMAIN initial_state # {},
     status |-> "idle", derivation |-> <<>>, output |-> <<>>, steps |-> 0, calls |-> 0,
     trace |-> <<>>]

\* __init__, up to the seeding of the random module
GrammarEngine(grammar_definition, corpora, no_state, initial_state) ==
    validate_grammar(parse_grammar_definition_file(NewGrammarEngine(no_state, initial_state),
                                                   grammar_definition, corpora))

(***************************************************************************)
(* GrammarEngine.generate                                                  *)
(***************************************************************************)
\* the markers a write directive puts around the rewriting of its symbol
BeginMarker(variable_to_write_to) == Terminal(<<"<", "$", "$", "b", "e", "g", "i", "n", " ">> \o variable_to_write_to \o <<">">>)
EndMarker(variable_to_write_to) == Terminal(<<"<", "$", "$", "e", "n", "d", " ">> \o variable_to_write_to \o <<">">>)

\* _derivation_includes_reference
derivation_includes_reference(derivation) ==
    \E i \in 1..Len(derivation) :
        derivation[i].kind # "str" \/ StartsWith(derivation[i].text, <<"<", "$", "$">>)

\* lines 418-429 of _render_surface_form for one element
render_element(element) ==
    IF element.kind = "symbol" THEN <<"<">> \o element.text \o <<">">>
    ELSE IF element.kind = "variable" THEN <<"<", "@">> \o element.text \o <<">">>
    ELSE IF element.kind = "tuple" THEN <<"<">> \o element.text \o <<" ">> \o element.variable \o <<">">>
    ELSE IF StartsWith(element.text, <<"<", "$", "$">>) THEN <<>>
    ELSE element.text

RECURSIVE render_surface_form(_)
\* _render_surface_form
render_surface_form(derivation) ==
    IF derivation = <<>> THEN <<>>
    ELSE render_element(Head(derivation)) \o render_surface_form(Tail(derivation))

RECURSIVE next_element(_, _)
\* lines 314-348: the place of the first element the for loop acts on, a reference or
\* a string that starts with '<$$end'; 0 when the loop ends without a break
next_element(derivation, i) ==
    IF i > Len(derivation) THEN 0
    ELSE IF derivation[i].kind # "str" \/ StartsWith(derivation[i].text, <<"<", "$", "$", "e", "n", "d">>) THEN i
    ELSE next_element(derivation, i + 1)

\* intermediate_derivation[:i] + elements + intermediate_derivation[i+1:]
Splice(derivation, i, elements) ==
    SubSeq(derivation, 1, i - 1) \o elements \o SubSeq(derivation, i + 1, Len(derivation))

\* NonterminalSymbol.rewrite: the body of the rule random.choice picks, given the
\* value the random module draws for the choice
rewrite(engine, name, choice) ==
    RulesOf(engine, name)[(choice % Len(RulesOf(engine, name))) + 1].body

\* a read or a write of a state variable during generate
StateEvent(kind, variable_name, value) == [kind |-> kind, variable |-> variable_name, value |-> value]

\* generate ends with an exception
GenerateRaises(engine, err) == [engine EXCEPT !.err = err, !.status = "raised"]

\* a stricter binding kept for comparison: a variable that is bound keeps its value
set_state_KeepsFirst(engine, variable_name, value) ==
    IF ~engine.has_state THEN GenerateRaises(engine, "AttributeError")
    ELSE [engine EXCEPT !.state = @ @@ (variable_name :> value),
                        !.trace = Append(@, StateEvent("write", variable_name, value))]

\* set_state: self.state[variable_name] = value
set_state(engine, variable_name, value) ==
    IF ~engine.has_state THEN GenerateRaises(engine, "AttributeError")
    ELSE [engine EXCEPT !.state = (variable_name :> value) @@ @,
                        !.trace = Append(@, StateEvent("write", variable_name, value))]

\* lines 322-331: a variable reference is replaced by the value of the variable
resolve_variable(engine, i, variable_name) ==
    IF ~engine.has_state THEN GenerateRaises(engine, "AttributeError")
    ELSE IF variable_name \notin DOMAIN engine.state THEN GenerateRaises(engine, "Exception")
    ELSE [engine EXCEPT !.derivation = Splice(@, i, <<Terminal(engine.state[variable_name])>>),
                        !.trace = Append(@, StateEvent("read", variable_name,
                                                       engine.state[variable_name]))]

ValueToWrite(err, found, value) == [err |-> err, found |-> found, value |-> value]

RECURSIVE value_to_write(_, _, _, _, _)
\* lines 352-362: the strings between the first begin marker of the variable and its
\* first end marker, joined; found tells whether an end marker was met
value_to_write(derivation, variable_name, j, reached_value_start, value) ==
    IF j > Len(derivation) THEN ValueToWrite("", FALSE, value)
    ELSE IF derivation[j] = BeginMarker(<<"@">> \o variable_name)
    THEN value_to_write(derivation, variable_name, j + 1, TRUE, value)
    ELSE IF derivation[j] = EndMarker(<<"@">> \o variable_name) THEN ValueToWrite("", TRUE, value)
    ELSE IF ~reached_value_start
    THEN value_to_write(derivation, variable_name, j + 1, FALSE, value)
    ELSE IF derivation[j].kind # "str" THEN ValueToWrite("TypeError", FALSE, value)
    ELSE value_to_write(derivation, variable_name, j + 1, TRUE, value \o derivation[j].text)

\* lines 364-368: every begin and end marker of the variable becomes the empty string
remove_markers(engine, variable_name) ==
    IF engine.status = "raised" THEN engine
    ELSE [engine EXCEPT !.derivation =
              [j \in 1..Len(@) |->
                  IF @[j] \in {BeginMarker(<<"@">> \o variable_name), EndMarker(<<"@">> \o variable_name)}
                  THEN Terminal(<<>>) ELSE @[j]]]

\* lines 352-369, given the value found
write_value(engine, variable_name, found) ==
    IF found.err # "" THEN GenerateRaises(engine, found.err)
    ELSE IF found.found
    THEN remove_markers(set_state(engine, variable_name, found.value), variable_name)
    ELSE remove_markers(engine, variable_name)

\* lines 348-369: an end marker is reached; words is element.split()
write_variable(engine, words) ==
    IF Len(words) < 2 THEN GenerateRaises(engine, "IndexError")
    ELSE write_value(engine, StripEnds(words[2]),
                     value_to_write(engine.derivation, StripEnds(words[2]), 1, FALSE, <<>>))

\* lines 335-344: a write directive is rewritten between a begin and an end marker
rewrite_directive(engine, i, element, choice) ==
    [engine EXCEPT !.derivation =
        Splice(@, i, <<BeginMarker(element.variable)>> \o rewrite(engine, element.text, choice)
                     \o <<EndMarker(element.variable)>>)]

\* lines 314-369: one iteration of the while loop, acting on the element at place i
step_at(engine, i, choice) ==
    IF i = 0 THEN engine
    ELSE IF engine.derivation[i].kind = "symbol"
    THEN [engine EXCEPT !.derivation = Splice(@, i, rewrite(engine, engine.derivation[i].text, choice))]
    ELSE IF engine.derivation[i].kind = "variable"
    THEN resolve_variable(engine, i, engine.derivation[i].text)
    ELSE IF engine.derivation[i].kind = "tuple"
    THEN rewrite_directive(engine, i, engine.derivation[i], choice)
    ELSE write_variable(engine, SplitWords(engine.derivation[i].text))

\* one iteration of the while loop of generate
generate_step(engine, choice) ==
    [step_at(engine, next_element(engine.derivation, 1), choice) EXCEPT !.steps = @ + 1]

\* lines 296-311 of generate: the start symbol is looked up
generate_begin(engine, start_symbol_name) ==
    IF ~Contains(engine.symbols, start_symbol_name)
    THEN [GenerateRaises(engine, "Exception") EXCEPT !.calls = @ + 1, !.derivation = <<>>,
                                                      !.steps = 0, !.trace = <<>>]
    ELSE [engine EXCEPT !.status = "running", !.err = "", !.calls = @ + 1, !.steps = 0,
                        !.derivation = <<Nonterminal(start_symbol_name)>>, !.trace = <<>>]

\* lines 374-378 of generate: the derivation has no reference left
generate_return(engine) ==
    [engine EXCEPT !.status = "returned", !.output = render_surface_form(engine.derivation)]

(***************************************************************************)
(* A grammar is loaded, and texts are generated from it                     *)
(***************************************************************************)
\* "S -> <Name @hero>: Once <@hero> ran." with "Name -> Alice|Bob"
StoryGrammar == <<"S", " ", "-", ">", " ", "<", "N", "a", "m", "e", " ", "@", "h", "e", "r", "o", ">", ":", " ", "O", "n", "c", "e", " ", "<", "@", "h", "e", "r", "o", ">", " ", "r", "a", "n", ".", "\n", "N", "a", "m", "e", " ", "-", ">", " ", "A", "l", "i", "c", "e", "|", "B", "o", "b">>
\* write directives inside the rewriting of a write directive
NestedGrammar == <<"S", " ", "-", ">", " ", "<", "A", " ", "@", "x", ">", " ", "<", "@", "x", ">", "\n", "A", " ", "-", ">", " ", "a", "<", "B", " ", "@", "y", ">", "\n", "B", " ", "-", ">", " ", "<", "C", " ", "@", "x", ">", "\n", "C", " ", "-", ">", " ", "b">>
\* a variable written twice in one generation and read after each write
TwiceGrammar == <<"S", " ", "-", ">", " ", "<", "A", " ", "@", "x", ">", "<", "@", "x", ">", "<", "B", " ", "@", "x", ">", "<", "@", "x", ">", "\n", "A", " ", "-", ">", " ", "a", "\n", "B", " ", "-", ">", " ", "b">>
\* a variable read in one generation and written in another
LaterGrammar == <<"S", " ", "-", ">", " ", "<", "@", "h", "e", "r", "o", ">", "|", "<", "N", "a", "m", "e", " ", "@", "h", "e", "r", "o", ">", "\n", "N", "a", "m", "e", " ", "-", ">", " ", "A", "l">>
\* a symbol that refers to itself
RecursiveGrammar == <<"S", " ", "-", ">", " ", "a", "<", "S", ">", "|", "b">>
\* a comment, a blank line, runs of tabs and a corpus
CorpusGrammar == <<"#", " ", "n", "a", "m", "e", "s", "\n", "\n", " ", " ", "S", "\t", "\t", "-", ">", "\t", "\t", "<", "N", "a", "m", "e", ">", "!", "\n", "N", "a", "m", "e", " ", "-", ">", " ", "$", "n", "a", "m", "e", "s">>
\* a write directive inside the rewriting of a write directive to the same variable
SameVariableGrammar == <<"S", " ", "-", ">", " ", "<", "A", " ", "@", "x", ">", "\n", "A", " ", "-", ">", " ", "<", "B", " ", "@", "x", ">", "c", "\n", "B", " ", "-", ">", " ", "b">>
\* a rule whose one alternate includes the corpus file of that name
\* a write directive to x inside one to y inside one to x, and a reference to x
DeepGrammar == <<"S", " ", "-", ">", " ", "<", "A", " ", "@", "x", ">", " ", "<", "@", "x", ">", "\n", "A", " ", "-", ">", " ", "<", "B", " ", "@", "y", ">", "\n", "B", " ", "-", ">", " ", "<", "C", " ", "@", "x", ">", "\n", "C", " ", "-", ">", " ", "b">>
IncludeGrammar(corpus_filename) == <<"S", " ", "-", ">", " ", "$">> \o corpus_filename
\* definitions the parser rejects
MalformedGrammars ==
    { <<"S", " ", "-", ">", " ", "<", "A", ">">>, <<"S", " ", "<", "A", ">">>, <<"S", " ", "-", ">", " ", "<", "A">>, <<" ", "-", ">", " ", "a">>, <<"S", " ", "-", ">", " ">>, <<"S", " ", "-", ">", " ", "a", " ", "-", ">", " ", "b">>, <<"S", " ", "-", ">", " ", "$", "m", "i", "s", "s", "i", "n", "g">> }

\* the corpus files that exist, by name
Corpora ==
    (<<"n", "a", "m", "e", "s">> :> <<"A", "l", "\n", "B", "o">>) @@ (<<"c", "a", "s", "t">> :> <<"A", "l", "\n", "\n", "B", "o", "\n">>)

GrammarDefinitions ==
    {StoryGrammar, NestedGrammar, SameVariableGrammar, DeepGrammar, TwiceGrammar, LaterGrammar,
     RecursiveGrammar, CorpusGrammar}
        \cup {IncludeGrammar(corpus_filename) : corpus_filename \in DOMAIN Corpora}
        \cup MalformedGrammars

hero == <<"h", "e", "r", "o">>
\* the values initial_state may have: None, an empty dictionary, a dictionary of strings
InitialStates == {<<>>, (hero :> <<"C", "y">>)}

StartSymbols == { <<"S">>, <<"T">> }

\* the most generate calls on one engine
MaxGenerate == 2
\* the most iterations of the while loop of one generate call
MaxSteps == 8
\* the values the random module may draw for a random.choice
MaxChoice == 2
ChoiceValues == 0..(MaxChoice - 1)

InitGrammar ==
    /\ rules = <<>>
    /\ domain = <<>>
    /\ facts = {}
    /\ facts_by_first_character = <<>>
    /\ actions = <<>>
    /\ module_attrs = <<>>
    /\ shuffle_randomly = FALSE
    /\ raised = ""
    /\ op = NoCall
    /\ pre = EmptyStore
    /\ fire_log = <<>>
    /\ compiled = <<>>
    /\ runs = <<>>
    /\ \E grammar_definition \in GrammarDefinitions, no_state \in BOOLEAN,
          initial_state \in InitialStates :
           /\ no_state => initial_state = <<>>
           /\ grammar = GrammarEngine(grammar_definition, Corpora, no_state, initial_state)

GrammarUnchanged ==
    UNCHANGED <<rules, domain, facts, facts_by_first_character, actions, module_attrs,
                shuffle_randomly, raised, op, pre, fire_log, compiled, runs>>

\* generate(start_symbol_name) is called
Generate ==
    /\ grammar.status \notin {"failed", "running"}
    /\ grammar.calls < MaxGenerate
    /\ \E start_symbol_name \in StartSymbols :
           grammar' = generate_begin(grammar, start_symbol_name)
    /\ GrammarUnchanged

\* the while loop of generate runs once more
GenerateStep ==
    /\ grammar.status = "running"
    /\ derivation_includes_reference(grammar.derivation)
    /\ grammar.steps < MaxSteps
    /\ \E choice \in ChoiceValues : grammar' = generate_step(grammar, choice)
    /\ GrammarUnchanged

\* the while loop of generate ends and the surface form is returned
GenerateReturn ==
    /\ grammar.status = "running"
    /\ ~derivation_includes_reference(grammar.derivation)
    /\ grammar' = generate_return(grammar)
    /\ GrammarUnchanged

NextGrammar == Generate \/ GenerateStep \/ GenerateReturn

SpecGrammar == InitGrammar /\ [][NextGrammar]_vars

(***************************************************************************)
(* Claims about generate, checked under SpecGrammar                         *)
(***************************************************************************)
\* the places before place k of the trace where the variable was written
WritesBefore(trace, variable_name, k) ==
    {j \in 1..(k - 1) : trace[j].kind = "write" /\ trace[j].variable = variable_name}

\* every read of a variable written earlier in the generation gives the value of the
\* latest of those writes
ReadsSeeLatestWrite(trace) ==
    \A k \in 1..Len(trace) :
        trace[k].kind = "read" =>
            \A j \in WritesBefore(trace, trace[k].variable, k) :
                (\A later \in WritesBefore(trace, trace[k].variable, k) : later <= j)
                    => trace[k].value = trace[j].value

\* the state holds, for every variable written in the generation, its latest write
StateKeepsLatestWrite(engine) ==
    \A j \in 1..Len(engine.trace) :
        (/\ engine.trace[j].kind = "write"
         /\ WritesBefore(engine.trace, engine.trace[j].variable, Len(engine.trace) + 1)
                \subseteq 1..j)
            => /\ engine.has_state
               /\ engine.trace[j].variable \in DOMAIN engine.state
               /\ engine.state[engine.trace[j].variable] = engine.trace[j].value

\* the engine was built from the grammar definition
BuiltFrom(grammar_definition) ==
    /\ grammar.status # "failed"
    /\ grammar.rules = GrammarEngine(grammar_definition, Corpora, TRUE, <<>>).rules

\* generate returned this text and left the variable hero bound to this name
StoryOf(name) ==
    /\ grammar.output = name \o <<":", " ", "O", "n", "c", "e", " ">> \o name \o <<" ", "r", "a", "n", ".">>
    /\ hero \in DOMAIN grammar.state
    /\ grammar.state[hero] = name

\* C12: during one generate call, every reference <@var> resolved after a write to var
\* is replaced by the value written last, and when generate has returned the engine
\* state holds that value; "S -> <Name @hero>: Once <@hero> ran." with Name rewritten
\* to Alice yields 'Alice: Once Alice ran.' and the state hero=Alice.
C12_WriteSeenByLaterReferences ==
    /\ grammar.status \in {"running", "returned", "raised"} => ReadsSeeLatestWrite(grammar.trace)
    /\ grammar.status = "returned" => StateKeepsLatestWrite(grammar)
    /\ (BuiltFrom(StoryGrammar) /\ grammar.status = "returned")
           => StoryOf(<<"A", "l", "i", "c", "e">>) \/ StoryOf(<<"B", "o", "b">>)

\* the story grammar has written Alice to hero, read it back and returned
C12_Witness ==
    /\ BuiltFrom(StoryGrammar)
    /\ grammar.status = "returned"
    /\ StoryOf(<<"A", "l", "i", "c", "e">>)
    /\ grammar.trace = <<StateEvent("write", hero, <<"A", "l", "i", "c", "e">>), StateEvent("read", hero, <<"A", "l", "i", "c", "e">>)>>

\* C13: whenever generate returns, the returned string contains no "<$$begin @var>"
\* and no "<$$end @var>" boundary marker.
C13_NoMarkerInOutput ==
    grammar.status = "returned" =>
        /\ ~HasSubstring(grammar.output, <<"<", "$", "$", "b", "e", "g", "i", "n", " ", "@">>)
        /\ ~HasSubstring(grammar.output, <<"<", "$", "$", "e", "n", "d", " ", "@">>)

\* the element is a boundary marker of a write directive
IsBeginMarker(element) == element.kind = "str" /\ StartsWith(element.text, <<"<", "$", "$", "b", "e", "g", "i", "n", " ">>)
IsEndMarker(element) == element.kind = "str" /\ StartsWith(element.text, <<"<", "$", "$", "e", "n", "d", " ">>)

RECURSIVE MatchingBegin(_, _, _)
\* the place of the begin marker that the end marker after place j closes: the
\* markers of the directives rewritten in between, open of them still to be passed,
\* are skipped; 0 when there is none
MatchingBegin(derivation, j, open) ==
    IF j = 0 THEN 0
    ELSE IF IsEndMarker(derivation[j]) THEN MatchingBegin(derivation, j - 1, open + 1)
    ELSE IF ~IsBeginMarker(derivation[j]) THEN MatchingBegin(derivation, j - 1, open)
    ELSE IF open = 0 THEN j
    ELSE MatchingBegin(derivation, j - 1, open - 1)

\* the terminal strings of the subtree whose end marker stands at place i, joined
SubtreeText(derivation, i) ==
    render_surface_form(SubSeq(derivation, MatchingBegin(derivation, i - 1, 0) + 1, i - 1))

\* the number of write directives whose rewriting is not yet written to the state
OpenDirectives(derivation) == Cardinality({j \in 1..Len(derivation) : IsEndMarker(derivation[j])})

\* the variable named by the marker: element.split()[1][1:-1]
MarkerVariable(element) == StripEnds(SplitWords(element.text)[2])

\* the next iteration of generate acts on the end marker of a write directive, in an
\* engine that has a state
EndMarkerNext ==
    /\ grammar.status = "running"
    /\ grammar.has_state
    /\ next_element(grammar.derivation, 1) # 0
    /\ IsEndMarker(grammar.derivation[next_element(grammar.derivation, 1)])

\* the iteration that acts on the end marker at place i writes the text of the subtree
\* it closes to its variable, and leaves the markers of every other directive in place
WritesSubtree(i) ==
    /\ grammar'.trace = Append(grammar.trace,
                               StateEvent("write", MarkerVariable(grammar.derivation[i]),
                                          SubtreeText(grammar.derivation, i)))
    /\ OpenDirectives(grammar'.derivation) = OpenDirectives(grammar.derivation) - 1

\* C22: for every write directive <Name @var> expanded, also one whose subtree holds
\* another write directive to the same variable, the write to var is made when the
\* subtree of that Name is fully rewritten, with the concatenation of the terminal
\* strings of that subtree as its value.
C22_WriteCapturesSubtree ==
    [][(EndMarkerNext /\ grammar'.steps = grammar.steps + 1)
           => WritesSubtree(next_element(grammar.derivation, 1))]_vars


\* the lines of the corpus file that are not empty, in file order
NonEmptyLines(corpus) == SelectSeq(Split(corpus, "\n"), LAMBDA line : line # <<>>)

\* the bodies of the production rules of the symbol, in the order they were added
BodiesOf(engine, name) == [k \in 1..Len(RulesOf(engine, name)) |-> RulesOf(engine, name)[k].body]

\* C23: an alternate $filename is replaced by exactly one alternate per non-empty
\* line of the corpus file; a blank line, and the empty string after a trailing
\* newline, gives no production rule, so no symbol gains a rule with an empty body.
C23_CorpusLinesAreAlternates ==
    \A corpus_filename \in DOMAIN Corpora :
        BuiltFrom(IncludeGrammar(corpus_filename)) =>
            BodiesOf(grammar, <<"S">>)
                = [k \in 1..Len(NonEmptyLines(Corpora[corpus_filename])) |->
                      <<Terminal(NonEmptyLines(Corpora[corpus_filename])[k])>>]

(***************************************************************************)
(* The random module, shared by the engines of one process                 *)
(***************************************************************************)
\* the seeds an engine may be given
Seeds == {1}

\* The state of the random module: whether it was last seeded with a seed (and not
\* with the clock), that seed, and the number of values it has returned since.
RandomState(seeded, seed) == [seeded |-> seeded, seed |-> seed, drawn |-> 0]

\* a seeding kept for comparison: the clock, whatever seed is given
seed_random_FromClock(given, random_seed) == RandomState(FALSE, 0)

\* the end of both constructors: random.seed(random_seed) when a seed is given
\* (random_seed is not None), random.seed(time.time()) otherwise
seed_random(given, random_seed) ==
    IF given THEN RandomState(TRUE, random_seed) ELSE RandomState(FALSE, 0)

\* The values the module may return next, as sequences of MaxDraws values. stream holds,
\* for every seed, the values the generator seeded with it is known to return, in
\* order: a generator seeded with the same seed returns the same values again, and
\* what it returns after them is any value. A generator seeded with the clock may
\* return any values.
MayDraw(stream, random) ==
    IF ~random.seeded THEN DrawSeqs
    ELSE {draws \in DrawSeqs :
            \A i \in 1..MaxDraws :
                random.drawn + i <= Len(stream[random.seed])
                    => draws[i] = stream[random.seed][random.drawn + i]}

\* the values known once a generator in this state has returned the first k of draws
Revealed(stream, random, draws, k) ==
    IF ~random.seeded \/ random.drawn + k <= Len(stream[random.seed]) THEN stream
    ELSE [stream EXCEPT ![random.seed] =
              @ \o [i \in 1..(random.drawn + k - Len(@)) |-> draws[Len(@) - random.drawn + i]]]

(***************************************************************************)
(* Two runs of one program: the same inputs, seeds and calls               *)
(***************************************************************************)
\* One run: its rule engine, its grammar engine once it is constructed, the random
\* module of its process, the texts generate has returned, the exception that ended
\* the run ("" while it goes on), and what the random module may have returned during
\* the last call (known).
Run(engine, random) ==
    [engine |-> [engine EXCEPT !.rnd = {}],
     grammar |-> [NewGrammarEngine(TRUE, <<>>) EXCEPT !.status = "none"],
     random |-> random, outputs |-> <<>>, err |-> "", known |-> {}]

\* the run after one attempt of execute that ended in the engine state st
run_attempted(run, st) ==
    [run EXCEPT !.engine = [st EXCEPT !.rnd = {}], !.err = st.err, !.known = st.rnd,
                !.random.drawn = @ + st.k]

\* execute(1) with shuffle_randomly=False, the random module returning one of rnd
run_execute(run, rnd) ==
    {run_attempted(run, st) :
        st \in attempt_rule_execution([run.engine EXCEPT !.k = 0, !.drew = <<>>, !.rnd = rnd], FALSE)}

\* whether the next iteration of the while loop of generate calls random.choice
Chooses(engine, i) == i # 0 /\ engine.derivation[i].kind \in {"symbol", "tuple"}

GenerateEnded(engine, rnd, k) == [engine |-> engine, rnd |-> rnd, k |-> k]

RECURSIVE generate_all(_, _, _)
\* generate from its first iteration on, the random module returning one of rnd: the
\* ways the call may end, each with the number k of values drawn and the sequences
\* of rnd that begin with them. A call that needs more iterations than MaxSteps or
\* more values than MaxDraws is left out.
generate_all(engine, rnd, k) ==
    IF engine.status # "running" THEN {GenerateEnded(engine, rnd, k)}
    ELSE IF ~derivation_includes_reference(engine.derivation)
    THEN {GenerateEnded(generate_return(engine), rnd, k)}
    ELSE IF engine.steps >= MaxSteps THEN {}
    ELSE IF ~Chooses(engine, next_element(engine.derivation, 1))
    THEN generate_all(generate_step(engine, 0), rnd, k)
    ELSE IF k >= MaxDraws THEN {}
    ELSE UNION {generate_all(generate_step(engine, v), {d \in rnd : d[k + 1] = v}, k + 1)
                : v \in {d[k + 1] : d \in rnd}}

\* the run after a generate call that ended as told
run_generated(run, ended) ==
    [run EXCEPT !.grammar = ended.engine,
                !.err = IF ended.engine.status = "raised" THEN ended.engine.err ELSE "",
                !.outputs = IF ended.engine.status = "returned"
                            THEN Append(@, ended.engine.output) ELSE @,
                !.known = ended.rnd,
                !.random.drawn = @ + ended.k]

\* generate(start_symbol_name), the random module returning one of rnd
run_generate(run, start_symbol_name, rnd) ==
    {run_generated(run, ended) :
        ended \in generate_all(generate_begin(run.grammar, start_symbol_name), rnd, 0)}

\* GrammarEngine(file_path, random_seed=random_seed)
run_grammar(run, grammar_definition, random_seed) ==
    [run EXCEPT !.grammar = GrammarEngine(grammar_definition, Corpora, TRUE, <<>>),
                !.random = seed_random(TRUE, random_seed)]

\* The engine inputs and the grammars of the two runs. The two facts have the same
\* first character, so that the order they are added in shows in the index.
al_is_hi == <<"a", "l", " ", "i", "s", " ", "h", "i">>
TwinScenarios ==
    {Scenario("twin", <<RuleA, RuleB, RuleC, RuleD>>, {People}, {al_is_ok, al_is_hi}, {FALSE})}
TwinGrammars == {StoryGrammar}
\* the most execute and generate calls of a run
MaxCalls == 2

\* Both runs construct RuleEngine(domain, rules, shuffle_randomly=False, random_seed)
\* from the same files and with the same seed; each iterates the set of initial facts
\* in an order of its own.
InitSeeded ==
    /\ rules = <<>>
    /\ domain = <<>>
    /\ facts = {}
    /\ facts_by_first_character = <<>>
    /\ actions = <<>>
    /\ module_attrs = <<>>
    /\ shuffle_randomly = FALSE
    /\ raised = ""
    /\ op = NoCall
    /\ pre = EmptyStore
    /\ fire_log = <<>>
    /\ compiled = <<>>
    /\ grammar = <<>>
    /\ \E sc \in TwinScenarios, random_seed \in Seeds :
        \E entities \in sc.entity_lists, initial_facts \in {sc.fact_lines} :
            \E order_a \in OrdersOf(initial_facts), order_b \in OrdersOf(initial_facts) :
                runs = [a |-> Run(EngineState(sc.rules, BuildDomain(entities),
                                              BuildStore(order_a), <<>>, <<>>, <<>>),
                                  seed_random(TRUE, random_seed)),
                        b |-> Run(EngineState(sc.rules, BuildDomain(entities),
                                              BuildStore(order_b), <<>>, <<>>, <<>>),
                                  seed_random(TRUE, random_seed)),
                        stream |-> [seed \in Seeds |-> <<>>],
                        calls |-> 0]

SeededUnchanged ==
    UNCHANGED <<rules, domain, facts, facts_by_first_character, actions, module_attrs,
                shuffle_randomly, raised, op, pre, fire_log, compiled, grammar>>

\* the results of a run: its Action records, its working memory, its generated texts
Results(run) == <<run.engine.actions, run.engine.wm.facts, run.outputs, run.err>>

\* Both runs go on and may make another call. Two runs are followed up to the first
\* call that ends differently in them.
MayCall ==
    /\ runs.a.err = "" /\ runs.b.err = ""
    /\ Results(runs.a) = Results(runs.b)
    /\ runs.calls < MaxCalls

\* the values known once the run that stood as before has made the call it ended as after
Known(stream, before, after) ==
    Revealed(stream, before.random, CHOOSE d \in after.known : TRUE,
             after.random.drawn - before.random.drawn)

\* the runs after both made the same call, run a ending as a and run b as b
BothCalled(a, b) ==
    [runs EXCEPT !.a = [a EXCEPT !.known = {}], !.b = [b EXCEPT !.known = {}],
                 !.calls = @ + 1,
                 !.stream = Known(Known(@, runs.a, a), runs.b, b)]

\* what the random module of run b may return once run a has ended its call as a
MayDrawSecond(a) == MayDraw(Known(runs.stream, runs.a, a), runs.b.random)

\* both runs call execute(1)
BothExecute ==
    /\ MayCall
    /\ \E a \in run_execute(runs.a, MayDraw(runs.stream, runs.a.random)) :
        \E b \in run_execute(runs.b, MayDrawSecond(a)) :
            /\ a.engine.k <= MaxDraws
            /\ b.engine.k <= MaxDraws
            /\ runs' = BothCalled(a, b)
    /\ SeededUnchanged

\* both runs construct the grammar engine from the same file, with the same seed
BothConstruct ==
    /\ runs.a.err = "" /\ runs.b.err = ""
    /\ Results(runs.a) = Results(runs.b)
    /\ runs.a.grammar.status = "none"
    /\ \E grammar_definition \in TwinGrammars, random_seed \in Seeds :
           runs' = [runs EXCEPT !.a = run_grammar(@, grammar_definition, random_seed),
                                !.b = run_grammar(@, grammar_definition, random_seed)]
    /\ SeededUnchanged

\* both runs call generate with the same start symbol
BothGenerate ==
    /\ MayCall
    /\ runs.a.grammar.status \notin {"none", "failed"}
    /\ \E start_symbol_name \in StartSymbols :
        \E a \in run_generate(runs.a, start_symbol_name, MayDraw(runs.stream, runs.a.random)) :
            \E b \in run_generate(runs.b, start_symbol_name, MayDrawSecond(a)) :
                runs' = BothCalled(a, b)
    /\ SeededUnchanged

NextSeeded == BothExecute \/ BothConstruct \/ BothGenerate

SpecSeeded == InitSeeded /\ [][NextSeeded]_vars

FactParsed(fact) == [err |-> "", fact |-> fact]
FactError == [err |-> "Exception", fact |-> <<>>]

\* the StopIteration test of _parse_fact_definition: some entity has the name
EntityNamed(entities, name) == \E k \in 1..Len(entities) : entities[k].name = name

RECURSIVE parse_fact_from(_, _, _, _, _, _)
\* the loop of _parse_fact_definition over re.split('(<|>)', fact_definition), taken
\* one character at a time from place i on: a component is a run of characters
\* between two brackets, and only its first character is compared with its lowercase
parse_fact_from(fact_definition, entities, i, expression, parsing_entity_reference, referenced_entity_name) ==
    IF i > Len(fact_definition) THEN FactParsed(expression)
    ELSE IF fact_definition[i] = "<"
    THEN parse_fact_from(fact_definition, entities, i + 1, expression, TRUE, referenced_entity_name)
    ELSE IF fact_definition[i] = ">"
    THEN IF ~EntityNamed(entities, referenced_entity_name) THEN FactError
         ELSE parse_fact_from(fact_definition, entities, i + 1,
                              expression \o referenced_entity_name, FALSE, <<>>)
    ELSE IF parsing_entity_reference
    THEN parse_fact_from(fact_definition, entities, i + 1, expression, TRUE,
                         referenced_entity_name \o <<fact_definition[i]>>)
    ELSE IF (i = 1 \/ fact_definition[i - 1] \in {"<", ">"}) /\ fact_definition[i] \in Uppercase
    THEN FactError
    ELSE parse_fact_from(fact_definition, entities, i + 1, expression \o <<fact_definition[i]>>,
                         FALSE, referenced_entity_name)

\* Compiler._parse_fact_definition
parse_fact_definition(fact_definition, entities) ==
    parse_fact_from(fact_definition, entities, 1, <<>>, FALSE, <<>>)

\* the facts block while it is compiled: its lines, the number of them read, the
\* facts collected, and the exception raised
FactsBlock(status, lines, read, fact_set, err) ==
    [status |-> status, lines |-> lines, read |-> read, facts |-> fact_set, err |-> err]

FactsFailed(block) == [block EXCEPT !.status = "failed", !.err = "Exception", !.read = @ + 1]

\* lines 147-151 of _parse_fact_definitions, given what _parse_fact_definition returned
fact_parsed(block, parsed) ==
    IF parsed.err # "" \/ parsed.fact \in block.facts THEN FactsFailed(block)
    ELSE [block EXCEPT !.facts = @ \cup {parsed.fact}, !.read = @ + 1]

\* one round of the loop of _parse_fact_definitions, for the stripped line
parse_fact_line(block, entities, line) ==
    IF line = <<>> \/ StartsWith(line, <<"#">>) THEN [block EXCEPT !.read = @ + 1]
    ELSE IF Count(line, "<") # Count(line, ">") THEN FactsFailed(block)
    ELSE fact_parsed(block, parse_fact_definition(line, entities))

\* the lines a facts block is written with
FactDefinitions ==
    { <<"<", "a", "l", ">", " ", "i", "s", " ", "o", "k">>, <<"<", "a", "l", ">", " ", "l", "i", "k", "e", "s", " ", "<", "b", "o", ">">>, <<"a", "l", " ", "l", "i", "k", "e", "s", " ", "B", "o">>, <<"<", "a", "l", ">", " ", "i", "s", " ", "H", "a", "p", "p", "y">>, <<"H", "a", "p", "p", "y", " ", "<", "a", "l", ">">>,
      <<"<", "a", "l", ">", "L", "i", "k", "e", "s", " ", "<", "b", "o", ">">>, <<"<", "c", "y", ">", " ", "i", "s", " ", "o", "k">>, <<"<", "a", "l", " ", "i", "s", " ", "o", "k">>, <<" ", " ", "a", "l", " ", "i", "s", " ", "o", "k">>, <<"#", " ", "a", "l">>, <<>> }

\* the most lines in a facts block
MaxFactLines == 2

FactsBlocks == UNION {[1..n -> FactDefinitions] : n \in 0..MaxFactLines}

InitDomain ==
    \E lines \in FactsBlocks :
        /\ rules = <<>>
        /\ domain = BuildDomain(People)
        /\ facts = {}
        /\ facts_by_first_character = <<>>
        /\ actions = <<>>
        /\ module_attrs = <<>>
        /\ shuffle_randomly = FALSE
        /\ raised = ""
        /\ op = NoCall
        /\ pre = EmptyStore
        /\ fire_log = <<>>
        /\ grammar = <<>>
        /\ runs = <<>>
        /\ compiled = FactsBlock("source", lines, 0, {}, "")

\* one round of the loop of Compiler._parse_fact_definitions
ParseFactLine ==
    /\ compiled.status = "source"
    /\ compiled.read < Len(compiled.lines)
    /\ compiled' = parse_fact_line(compiled, Entities(domain),
                                   Strip(compiled.lines[compiled.read + 1]))
    /\ raised' = parse_fact_line(compiled, Entities(domain),
                                 Strip(compiled.lines[compiled.read + 1])).err
    /\ UNCHANGED <<rules, domain, facts, facts_by_first_character, actions, module_attrs,
                   shuffle_randomly, grammar, runs, op, pre, fire_log>>

\* parse_domain_file returns the facts and RuleEngine.__init__ builds the working
\* memory from them, in the order the set is iterated in
BuildMemory ==
    /\ compiled.status = "source"
    /\ compiled.read = Len(compiled.lines)
    /\ \E order \in OrdersOf(compiled.facts) :
           /\ facts' = BuildStore(order).facts
           /\ facts_by_first_character' = BuildStore(order).idx
    /\ compiled' = [compiled EXCEPT !.status = "built"]
    /\ UNCHANGED <<rules, domain, actions, module_attrs, shuffle_randomly, grammar, runs, op,
                   pre, fire_log, raised>>

NextDomain == ParseFactLine \/ BuildMemory

SpecDomain == InitDomain /\ [][NextDomain]_vars

(***************************************************************************)
(* Claims about the facts block, checked under SpecDomain                  *)
(***************************************************************************)
RECURSIVE OutsideBrackets(_, _, _)
\* the line with every <...> entity reference replaced by a space
OutsideBrackets(line, i, inside) ==
    IF i > Len(line) THEN <<>>
    ELSE IF line[i] = "<" THEN <<" ">> \o OutsideBrackets(line, i + 1, TRUE)
    ELSE IF line[i] = ">" THEN OutsideBrackets(line, i + 1, FALSE)
    ELSE IF inside THEN OutsideBrackets(line, i + 1, TRUE)
    ELSE <<line[i]>> \o OutsideBrackets(line, i + 1, FALSE)

\* the line has, outside its entity references, a word that begins with an uppercase
\* letter
UppercaseWordOutside(line) ==
    \E k \in 1..Len(SplitWords(OutsideBrackets(line, 1, FALSE))) :
        Head(SplitWords(OutsideBrackets(line, 1, FALSE))[k]) \in Uppercase

\* the lines of the block that were read without an exception
LinesAccepted ==
    {compiled.lines[k] : k \in 1..(IF compiled.status = "failed" THEN compiled.read - 1
                                   ELSE compiled.read)}

\* the fact is made of words that begin with a lowercase letter and of names of
\* declared entities
LowercaseWordsAndEntities(fact) ==
    \A k \in 1..Len(SplitWords(fact)) :
        \/ Head(SplitWords(fact)[k]) \in Lowercase
        \/ EntityNamed(Entities(domain), SplitWords(fact)[k])

\* C24: domain compilation fails for every fact line that has, outside its <...>
\* entity references, a word beginning with an uppercase letter, wherever the word
\* stands; so every initial fact is made only of lowercase-initial literal words and
\* of names of declared entities.
C24_UppercaseWordRejected ==
    /\ \A line \in LinesAccepted : ~UppercaseWordOutside(Strip(line))
    /\ \A fact \in compiled.facts \cup facts : LowercaseWordsAndEntities(fact)

(***************************************************************************)
(* Compiler: the sections of a rule definition                             *)
(***************************************************************************)
\* the literal section labels, in the order of the pattern of re.split
SectionLabels == << <<"p", "r", "o", "b", ":">>, <<"r", "o", "l", "e", "s", ":">>, <<"p", "r", "e", "c", "o", "n", "d", "i", "t", "i", "o", "n", "s", ":">>, <<"e", "f", "f", "e", "c", "t", "s", ":">>, <<"r", "e", "s", "p", "o", "n", "s", "e", "s", ":">> >>

\* the labels that stand at place i of the text
LabelsAt(s, i) == {k \in 1..Len(SectionLabels) : StartsWith(SubSeq(s, i, Len(s)), SectionLabels[k])}

RECURSIVE split_labels(_, _, _)
\* re.split('(prob:|roles:|preconditions:|effects:|responses:)', s) from place i on:
\* the texts between the labels and the labels themselves, in order; start is the
\* place where the text before the next label begins
split_labels(s, i, start) ==
    IF i > Len(s) THEN <<SubSeq(s, start, Len(s))>>
    ELSE IF LabelsAt(s, i) = {} THEN split_labels(s, i + 1, start)
    ELSE <<SubSeq(s, start, i - 1), SectionLabels[CHOOSE k \in LabelsAt(s, i) : TRUE]>>
             \o split_labels(s, i + Len(SectionLabels[CHOOSE k \in LabelsAt(s, i) : TRUE]),
                             i + Len(SectionLabels[CHOOSE k \in LabelsAt(s, i) : TRUE]))

\* float(text), in hundredths, for a text of decimal digits with at most one point;
\* -1 stands for ValueError
Float(text) ==
    IF \/ \E k \in 1..Len(text) : ~Contains(Digits, text[k]) /\ text[k] # "."
       \/ Count(text, ".") > 1
       \/ \A k \in 1..Len(text) : text[k] = "."
    THEN -1
    ELSE LET point == IF Find(text, ".", 1) = 0 THEN Len(text) + 1 ELSE Find(text, ".", 1)
             digit(k) == IF k \in 1..Len(text) THEN Find(Digits, text[k], 1) - 1 ELSE 0
             RECURSIVE whole(_)
             whole(k) == IF k = 0 THEN 0 ELSE 10 * whole(k - 1) + digit(k)
         IN  100 * whole(point - 1) + 10 * digit(point + 1) + digit(point + 2)

\* the rule while its definition is compiled: the components collected, the flags of
\* the loop over the definition components, and the exception raised
RuleParts ==
    [err |-> "", probability |-> 100, roles |-> <<>>, preconditions |-> <<>>, effects |-> <<>>,
     response_actions |-> <<>>, parsing_probability |-> FALSE, parsing_roles |-> FALSE,
     parsing_preconditions |-> FALSE, parsing_effects |-> FALSE,
     parsing_response_actions |-> FALSE]

\* the conditions of a section from line i on, given the conditions parsed from
\* line i and those of the lines after it
conditions_next(parsed, rest) ==
    IF parsed.err # "" THEN parsed
    ELSE IF rest.err # "" THEN rest
    ELSE [err |-> "", conditions |-> parsed.conditions \o rest.conditions]

RECURSIVE parse_precondition_lines(_, _, _)
\* lines 302-327 of _parse_rule_definition, from line i of the component on
parse_precondition_lines(definitions, roles, i) ==
    IF i > Len(definitions) THEN [err |-> "", conditions |-> <<>>]
    ELSE IF IsBlank(definitions[i]) THEN parse_precondition_lines(definitions, roles, i + 1)
    ELSE conditions_next(parse_preconditions(precondition_definitions(definitions[i], roles),
                                             roles, 1),
                         parse_precondition_lines(definitions, roles, i + 1))

RECURSIVE parse_effect_lines(_, _, _)
\* lines 329-353 of _parse_rule_definition, from line i of the component on
parse_effect_lines(definitions, roles, i) ==
    IF i > Len(definitions) THEN [err |-> "", conditions |-> <<>>]
    ELSE IF IsBlank(definitions[i]) THEN parse_effect_lines(definitions, roles, i + 1)
    ELSE conditions_next(parse_effects(effect_definitions(definitions[i], roles), roles, 1),
                         parse_effect_lines(definitions, roles, i + 1))

RECURSIVE response_action_bindings(_, _)
\* lines 564-566 of _parse_response_action_definition, from raw binding i on; a
\* binding of the same target role further on replaces this one
response_action_bindings(raw_bindings, i) ==
    IF i > Len(raw_bindings) THEN <<>>
    ELSE response_action_bindings(raw_bindings, i + 1)
             @@ (Split(raw_bindings[i], "=")[1] :> Split(raw_bindings[i], "=")[2])

\* _parse_response_action_definition, given
\* response_action_definition.rstrip(' )').split('(')
response_action_of(parts) ==
    IF Len(parts) # 2 THEN [err |-> "ValueError", conditions |-> <<>>]
    ELSE IF \E k \in 1..Len(Split(Replace(parts[2], <<" ">>, <<>>), ",")) :
                Len(Split(Split(Replace(parts[2], <<" ">>, <<>>), ",")[k], "=")) # 2
    THEN [err |-> "ValueError", conditions |-> <<>>]
    ELSE [err |-> "",
          conditions |-> <<ResponseAction(parts[1],
                                          response_action_bindings(
                                              Split(Replace(parts[2], <<" ">>, <<>>), ","), 1))>>]

\* Compiler._parse_response_action_definition
parse_response_action_definition(response_action_definition) ==
    response_action_of(Split(RStrip(Strip(response_action_definition), {" ", ")"}), "("))

RECURSIVE parse_response_lines(_, _)
\* lines 355-371 of _parse_rule_definition, from line i of the component on
parse_response_lines(definitions, i) ==
    IF i > Len(definitions) THEN [err |-> "", conditions |-> <<>>]
    ELSE IF IsBlank(definitions[i]) THEN parse_response_lines(definitions, i + 1)
    ELSE conditions_next(parse_response_action_definition(definitions[i]),
                         parse_response_lines(definitions, i + 1))

\* lines 290-300, given what the lines of the component were parsed to as roles
roles_parsed(parts, parsed) ==
    IF parsed.err # "" THEN [parts EXCEPT !.err = parsed.err, !.parsing_roles = FALSE]
    ELSE [parts EXCEPT !.roles = @ \o parsed.roles, !.parsing_roles = FALSE]

\* lines 301-327, given what the lines were parsed to as preconditions
preconditions_parsed(parts, parsed) ==
    IF parsed.err # "" THEN [parts EXCEPT !.err = parsed.err, !.parsing_preconditions = FALSE]
    ELSE [parts EXCEPT !.preconditions = @ \o parsed.conditions,
                       !.parsing_preconditions = FALSE]

\* lines 328-353, given what the lines were parsed to as effects
effects_parsed(parts, parsed) ==
    IF parsed.err # "" THEN [parts EXCEPT !.err = parsed.err, !.parsing_effects = FALSE]
    ELSE [parts EXCEPT !.effects = @ \o parsed.conditions, !.parsing_effects = FALSE]

\* lines 354-371, given what the lines were parsed to as response actions
responses_parsed(parts, parsed) ==
    IF parsed.err # "" THEN [parts EXCEPT !.err = parsed.err, !.parsing_response_actions = FALSE]
    ELSE [parts EXCEPT !.response_actions = @ \o parsed.conditions,
                       !.parsing_response_actions = FALSE]

\* lines 290-371: the if/elif chain over the flags, the first flag that is set
\* deciding what the component is compiled to
parse_section(parts, component) ==
    IF parts.err # "" THEN parts
    ELSE IF parts.parsing_roles
    THEN roles_parsed(parts, parse_roles_from(Split(component, "\n"), 1))
    ELSE IF parts.parsing_preconditions
    THEN preconditions_parsed(parts, parse_precondition_lines(Split(component, "\n"),
                                                              parts.roles, 1))
    ELSE IF parts.parsing_effects
    THEN effects_parsed(parts, parse_effect_lines(Split(component, "\n"), parts.roles, 1))
    ELSE IF parts.parsing_response_actions
    THEN responses_parsed(parts, parse_response_lines(Split(component, "\n"), 1))
    ELSE parts

\* lines 283-289: the component after 'prob:' is read as the probability
parse_probability(parts, component) ==
    IF ~parts.parsing_probability THEN parts
    ELSE IF Float(Strip(component)) < 0 THEN [parts EXCEPT !.err = "Exception"]
    ELSE [parts EXCEPT !.probability = Float(Strip(component)), !.parsing_probability = FALSE]

\* one round of the loop over the definition components (lines 265-371)
parse_component(parts, component) ==
    IF IsBlank(component) THEN parts
    ELSE IF component = SectionLabels[1] THEN [parts EXCEPT !.parsing_probability = TRUE]
    ELSE IF component = SectionLabels[2] THEN [parts EXCEPT !.parsing_roles = TRUE]
    ELSE IF component = SectionLabels[3] THEN [parts EXCEPT !.parsing_preconditions = TRUE]
    ELSE IF component = SectionLabels[4] THEN [parts EXCEPT !.parsing_effects = TRUE]
    ELSE IF component = SectionLabels[5] THEN [parts EXCEPT !.parsing_response_actions = TRUE]
    ELSE parse_section(parse_probability(parts, component), component)

RECURSIVE parse_components(_, _, _)
\* the loop over the definition components, from component i on
parse_components(parts, definition_components, i) ==
    IF parts.err # "" \/ i > Len(definition_components) THEN parts
    ELSE parse_components(parse_component(parts, definition_components[i]),
                          definition_components, i + 1)

RECURSIVE role_references(_, _)
\* re.findall(r'\{.*?\}', action_string) from place i on, the braces stripped
role_references(action_string, i) ==
    IF Find(action_string, "{", i) = 0 THEN {}
    ELSE IF Find(action_string, "}", Find(action_string, "{", i) + 1) = 0 THEN {}
    ELSE {SubSeq(action_string, Find(action_string, "{", i) + 1,
                 Find(action_string, "}", Find(action_string, "{", i) + 1) - 1)}
             \cup role_references(action_string,
                                  Find(action_string, "}", Find(action_string, "{", i) + 1) + 1)

\* str.endswith(suffix)
EndsWith(s, suffix) ==
    Len(s) >= Len(suffix) /\ SubSeq(s, Len(s) - Len(suffix) + 1, Len(s)) = suffix

\* what _parse_rule_definition returns: the Rule, or the exception raised
RuleParsed(err, rule) == [err |-> err, rule |-> rule]

\* lines 373-394 of _parse_rule_definition: the checks of the action string, and the
\* Rule object
rule_of(action_name, response_action, action_string, parts) ==
    IF parts.err # "" THEN RuleParsed(parts.err, None)
    ELSE IF Count(action_string, "{") # Count(action_string, "}") THEN RuleParsed("Exception", None)
    ELSE IF \E role_name \in role_references(action_string, 1) :
                \A k \in 1..Len(parts.roles) : parts.roles[k].name # role_name
    THEN RuleParsed("Exception", None)
    ELSE RuleParsed("", Rule(action_name, response_action, action_string, parts.probability,
                             parts.roles, parts.preconditions, parts.effects,
                             parts.response_actions))

\* lines 247-251: the name of the action, without ' debug' and without '(response)'
action_name_of(action_name) ==
    SplitWords(IF EndsWith(action_name, <<" ", "d", "e", "b", "u", "g">>)
               THEN SubSeq(action_name, 1, Len(action_name) - Len(<<" ", "d", "e", "b", "u", "g">>))
               ELSE action_name)

\* lines 246-394, given rule_definition.split('\n')
parse_rule_lines(lines) ==
    IF Len(lines) < 2 THEN RuleParsed("ValueError", None)
    ELSE IF action_name_of(RStrip(lines[1], Whitespace)) = <<>> THEN RuleParsed("IndexError", None)
    ELSE rule_of(action_name_of(RStrip(lines[1], Whitespace))[1],
                 EndsWith(IF EndsWith(RStrip(lines[1], Whitespace), <<" ", "d", "e", "b", "u", "g">>)
                          THEN SubSeq(RStrip(lines[1], Whitespace), 1,
                                      Len(RStrip(lines[1], Whitespace)) - Len(<<" ", "d", "e", "b", "u", "g">>))
                          ELSE RStrip(lines[1], Whitespace),
                          <<"(", "r", "e", "s", "p", "o", "n", "s", "e", ")">>),
                 lines[2],
                 parse_components(RuleParts,
                                  split_labels(JoinWith(SubSeq(lines, 3, Len(lines)), <<"\n">>),
                                               1, 1),
                                  1))

\* Compiler._parse_rule_definition
parse_rule_definition(rule_definition) == parse_rule_lines(Split(rule_definition, "\n"))

(***************************************************************************)
(* A rule definition is compiled, and the rule is executed                 *)
(***************************************************************************)
\* the lines a section is written with: none when it is left out, its label alone
\* when it is empty, its label and its one line when it is filled
Layouts == {"absent", "empty", "filled"}
SectionLines(label, layout, line) ==
    IF layout = "absent" THEN <<>> ELSE IF layout = "empty" THEN <<label>> ELSE <<label, line>>

\* the three sections after the roles, each with the line that fills it
BodySections ==
    << <<SectionLabels[3], <<"(", "X", " ", "i", "s", " ", "o", "k", ")">>>>, <<SectionLabels[4], <<"(", "X", " ", "i", "s", " ", "h", "i", ")">>>>,
       <<SectionLabels[5], <<"D", "(", "X", "=", "X", ")">>>> >>

\* the rule definitions: $R with the action string "{X} r", 'prob:' first (left out,
\* empty, or 'prob: 0.5'), the roles section, and then the other three sections in
\* any order, each left out, empty or filled
RuleDefinitions ==
    {JoinWith(<< <<"R">>, <<"\"", "{", "X", "}", " ", "r", "\"">> >>
                  \o (IF prob = "absent" THEN <<>>
                      ELSE IF prob = "empty" THEN <<SectionLabels[1]>>
                      ELSE <<SectionLabels[1] \o <<" ", "0", ".", "5">>>>)
                  \o <<SectionLabels[2], <<"X", ":", "P", "e", "r", "s", "o", "n">>>>
                  \o SectionLines(order[1][1], layout[1], order[1][2])
                  \o SectionLines(order[2][1], layout[2], order[2][2])
                  \o SectionLines(order[3][1], layout[3], order[3][2]),
              <<"\n">>) :
        prob \in Layouts, order \in PermsOf(BodySections), layout \in [1..3 -> Layouts]}

\* a rule definition: as written, as compiled, and as executed
Definition(status, rule_definition, parsed) ==
    [status |-> status, definition |-> rule_definition, err |-> parsed.err, rule |-> parsed.rule]

InitRule ==
    \E rule_definition \in RuleDefinitions :
        /\ rules = <<>>
        /\ domain = BuildDomain(People)
        /\ facts = BuildStore(<<al_is_ok>>).facts
        /\ facts_by_first_character = BuildStore(<<al_is_ok>>).idx
        /\ actions = <<>>
        /\ module_attrs = <<>>
        /\ shuffle_randomly = FALSE
        /\ raised = ""
        /\ op = NoCall
        /\ pre = EmptyStore
        /\ fire_log = <<>>
        /\ grammar = <<>>
        /\ runs = <<>>
        /\ compiled = Definition("source", rule_definition, RuleParsed("", None))

\* Compiler._parse_rule_definition
ParseRuleDefinition ==
    /\ compiled.status = "source"
    /\ compiled' = Definition("parsed", compiled.definition,
                              parse_rule_definition(compiled.definition))
    /\ raised' = parse_rule_definition(compiled.definition).err
    /\ UNCHANGED <<rules, domain, facts, facts_by_first_character, actions, module_attrs,
                   shuffle_randomly, grammar, runs, op, pre, fire_log>>

\* RuleEngine.__init__ with the compiled rule and the response rule $D, and execute(1)
ExecuteRule ==
    /\ compiled.status = "parsed"
    /\ compiled.err = ""
    /\ \E st \in attempt_rule_execution(
                    EngineState(<<compiled.rule, RuleD>>, domain, WM, actions, module_attrs,
                                fire_log), FALSE) :
           /\ rules' = st.rules
           /\ domain' = st.domain
           /\ facts' = st.wm.facts
           /\ facts_by_first_character' = st.wm.idx
           /\ actions' = st.actions
           /\ module_attrs' = st.attrs
           /\ fire_log' = st.log
           /\ raised' = st.err
           /\ pre' = WM
    /\ compiled' = [compiled EXCEPT !.status = "executed"]
    /\ UNCHANGED <<shuffle_randomly, grammar, runs, op>>

NextRule == ParseRuleDefinition \/ ExecuteRule

SpecRule == InitRule /\ [][NextRule]_vars

(***************************************************************************)
(* Claims about the sections of a rule, checked under SpecRule             *)
(***************************************************************************)
\* the text of the rule block after its name and its action string
BodyOf(rule_definition) ==
    JoinWith(SubSeq(Split(rule_definition, "\n"), 3, Len(Split(rule_definition, "\n"))), <<"\n">>)

\* the text between the section label and the next label of the block; empty when
\* the block has no such label
LinesUnder(rule_definition, label) ==
    LET definition_components == split_labels(BodyOf(rule_definition), 1, 1)
    IN  IF \E k \in 1..(Len(definition_components) - 1) : definition_components[k] = label
        THEN definition_components[1 + CHOOSE k \in 1..(Len(definition_components) - 1) :
                                          definition_components[k] = label]
        ELSE <<>>

\* C25: the lines between a section label and the next label are compiled into that
\* section's component and into no other: the lines under 'preconditions:' into the
\* preconditions, those under 'effects:' into the effects, and likewise the roles and
\* the responses, whatever the order of the sections and also when another section of
\* the block is empty.
C25_SectionsCompiledInPlace ==
    (compiled.status \in {"parsed", "executed"} /\ compiled.err = "") =>
        /\ compiled.rule.roles = parse_roles(LinesUnder(compiled.definition, SectionLabels[2])).roles
        /\ compiled.rule.preconditions
               = parse_precondition_lines(
                     Split(LinesUnder(compiled.definition, SectionLabels[3]), "\n"),
                     compiled.rule.roles, 1).conditions
        /\ compiled.rule.effects
               = parse_effect_lines(Split(LinesUnder(compiled.definition, SectionLabels[4]), "\n"),
                                    compiled.rule.roles, 1).conditions
        /\ compiled.rule.response_actions
               = parse_response_lines(
                     Split(LinesUnder(compiled.definition, SectionLabels[5]), "\n"), 1).conditions

(***************************************************************************)
(* Termination of generate: every iteration of the while loop rewrites     *)
(***************************************************************************)
\* the symbols the rules of the symbol reference, as symbols or in write directives
RefersTo(engine, name) ==
    UNION {{RulesOf(engine, name)[r].body[i].text :
               i \in {j \in 1..Len(RulesOf(engine, name)[r].body) :
                         RulesOf(engine, name)[r].body[j].kind \in {"symbol", "tuple"}}}
           : r \in 1..Len(RulesOf(engine, name))}

RECURSIVE ReachedFrom(_, _, _)
\* the symbols reached from those named by at most k more references
ReachedFrom(engine, names, k) ==
    IF k = 0 THEN names
    ELSE ReachedFrom(engine, names \cup UNION {RefersTo(engine, name) : name \in names}, k - 1)

\* the grammar was validated and no symbol is reached from itself
Acyclic(engine) ==
    /\ engine.status # "failed"
    /\ \A i \in 1..Len(engine.symbols) :
           engine.symbols[i]
               \notin ReachedFrom(engine, RefersTo(engine, engine.symbols[i]), Len(engine.symbols))

\* the while loop of generate is entered once more: the derivation counts as incomplete
LoopContinues == grammar.status = "running" /\ derivation_includes_reference(grammar.derivation)

\* the iteration has an element of the derivation to act on; one that has none leaves
\* the derivation as it found it, and so does every iteration after it
IterationRewrites == next_element(grammar.derivation, 1) # 0

\* C31: for a validated grammar whose reference graph is acyclic, on an engine whose
\* state is defined, every generate call terminates whatever productions are chosen,
\* and returns a derivation of terminal strings only: every iteration of the while
\* loop finds an element to rewrite or resolve, so the loop never repeats on an
\* unchanged derivation, and the derivation returned holds no reference.
C31_GenerateTerminates ==
    /\ (LoopContinues /\ Acyclic(grammar) /\ grammar.has_state) => IterationRewrites
    /\ (grammar.status = "returned" /\ Acyclic(grammar))
           => ~derivation_includes_reference(grammar.derivation)

(***************************************************************************)
(* holds against has_fact: the first-character index and the fact set      *)
(***************************************************************************)
\* the plain conditions with the negated flag clear and the bindings under which they
\* ground to an expression without the Kleene star
StarFree(condition, bindings) ==
    /\ ~condition.or_expression
    /\ ~condition.negated
    /\ ~Ungrounded(condition, bindings)
    /\ ground(condition, bindings) # <<>>
    /\ ~Contains(ground(condition, bindings), "*")

\* C32: after any sequence of add_grounded_fact, add and delete, for every non-negated
\* predicate P and bindings b that ground it to an expression without `*`, holds(P, b)
\* is true exactly when has_fact(ground(P, b)) is: the first-character index never
\* makes a deleted fact appear to hold.
C32_HoldsIffHasFact ==
    \A condition \in WMConditions, bindings \in WMBindings :
        StarFree(condition, bindings)
            => /\ holds(WM, condition, bindings).err = ""
               /\ holds(WM, condition, bindings).val
                      <=> has_fact(WM, ground(condition, bindings))

(***************************************************************************)
(* Response declarations: the compiler's checks and the bindings of _fire  *)
(***************************************************************************)
\* the role of that name is declared by the rule
DeclaresRole(rule, role_name) == \E j \in 1..Len(rule.roles) : rule.roles[j].name = role_name

\* the checks parse_rules_file makes of one response declaration of the rule: the rule
\* it names is defined, every target role is declared by that rule and every source
\* role by this one, and every required role of that rule is a target
response_action_checked(rule_objects, rule, response_action) ==
    /\ \E j \in 1..Len(rule_objects) : rule_objects[j].action_name = response_action.action_name
    /\ \A target_role \in DOMAIN response_action.action_bindings :
           /\ DeclaresRole(RuleNamed(rule_objects, response_action.action_name), target_role)
           /\ DeclaresRole(rule, response_action.action_bindings[target_role])
    /\ \A j \in 1..Len(RuleNamed(rule_objects, response_action.action_name).roles) :
           RuleNamed(rule_objects, response_action.action_name).roles[j].required
               => RuleNamed(rule_objects, response_action.action_name).roles[j].name
                      \in DOMAIN response_action.action_bindings

\* no response declaration of any rule makes parse_rules_file raise
response_actions_checked(rule_objects) ==
    \A r \in 1..Len(rule_objects) :
        \A i \in 1..Len(rule_objects[r].response_actions) :
            response_action_checked(rule_objects, rule_objects[r],
                                    rule_objects[r].response_actions[i])

\* C33: for a rule set that passes the compiler's checks of response declarations,
\* every recorded Action has an entity bound to every source role of every response
\* its rule declares, so that composing the bindings of a response never raises.
C33_ResponseSourcesBound ==
    response_actions_checked(rules)
        => \A a \in 1..Len(actions) :
               \A i \in 1..Len(RuleOf(a).response_actions) :
                   ~ResponseUnbound(RuleOf(a).response_actions[i], actions[a].bindings)

(***************************************************************************)
(* The bindings of a recorded Action: one role for an entity               *)
(***************************************************************************)
\* C34: in every recorded Action, fired from the rule loop of an attempt or as a
\* response, no entity is bound to two different roles.
C34_NoEntityInTwoRoles ==
    \A a \in 1..Len(actions) :
        \A role, other \in DOMAIN actions[a].bindings :
            role # other => actions[a].bindings[role] # actions[a].bindings[other]

(***************************************************************************)
(* An attempt in which no rule fires                                       *)
(***************************************************************************)
\* the attempt that is this step fires no rule: no rule the loop tests has a candidate
\* binding tuple that satisfies its preconditions, or the one draw of the attempt is
\* not below the probability of the rule it was made for
NoRuleFires ==
    \/ \A i \in 1..Len(rules) : ~CanDraw(WM, domain, rules[i])
    \/ /\ Len(op'.drew) = 1
       /\ op'.drew[1].draw >= RuleNamed(rules, op'.drew[1].rule).probability

\* C35: an attempt in which no rule fires leaves the fact set, the first-character
\* index, the entities of the domain and the actions list as they were; of the rules
\* list only the order may change, and it changes only when the engine shuffles.
C35_NoFiringNoChange ==
    [][(op.todo > 0 /\ NoRuleFires) =>
           /\ facts' = facts
           /\ facts_by_first_character' = facts_by_first_character
           /\ domain' = domain
           /\ actions' = actions
           /\ rules' \in PermsOf(rules)
           /\ ~shuffle_randomly => rules' = rules]_vars

\* after an earlier firing, an attempt of a shuffling engine has ended on a failed
\* draw for a rule with an entity-creating role, and has recorded nothing
C35_Witness ==
    /\ op.n > 0
    /\ raised = ""
    /\ shuffle_randomly
    /\ Len(actions) > 0
    /\ op.before = Len(actions)
    /\ Len(op.drew) = 1
    /\ op.drew[1].draw >= RuleNamed(rules, op.drew[1].rule).probability
    /\ CreationRoles(RuleNamed(rules, op.drew[1].rule)) # {}
    /\ WM = pre

(***************************************************************************)
(* Interpolation: the names a firing's strings are filled with             *)
(***************************************************************************)
\* the bindings of the Action at place a without the Action's own entity, which
\* _spawn_action binds to This after the action string is resolved
FiringBindings(a) ==
    [r \in DOMAIN actions[a].bindings \ {This} |-> actions[a].bindings[r]]

\* the action string of the rule filled with the names bound in that firing alone
DisplayString(a) ==
    FString(Underscore(RuleOf(a).action_string), SetAttrs(<<>>, FiringBindings(a)))

\* C36: the display string of every recorded Action and the name of every entity
\* created for an entity-creating role are what the rule's template and the bindings
\* of that same firing yield: no {Role} reference is filled with the name of an entity
\* that was bound to a role of that name in an earlier firing.
C36_FilledFromOwnBindings ==
    \A a \in 1..Len(actions) :
        /\ DisplayString(a).err = ""
        /\ actions[a].string = StripEnds(DisplayString(a).text)
        /\ \A role \in CreationRoles(RuleOf(a)) :
               role.name \in DOMAIN actions[a].bindings
                   => NamedUniquely(actions[a].bindings[role.name], RecipeName(a, role))

(***************************************************************************)
(* Ternary effects: where the author wrote `!`                             *)
(***************************************************************************)
RECURSIVE OpenAt(_, _, _)
\* the place of the k-th '(' of s from place i on, 0 when there is none
OpenAt(s, k, i) ==
    IF Find(s, "(", i) = 0 THEN 0
    ELSE IF k = 1 THEN Find(s, "(", i)
    ELSE OpenAt(s, k - 1, Find(s, "(", i) + 1)

\* the author wrote `!` on the k-th parenthesised part of the definition
Bang(s, k) == OpenAt(s, k, 1) > 1 /\ s[OpenAt(s, k, 1) - 1] = "!"

\* the negated flag of a branch, which is a Predicate or None
BranchNegated(effect) == effect # None /\ effect.negated

\* the line compiled is a ternary effect, and has compiled without an error
TernaryCompiled ==
    /\ compiled.kind = "effect"
    /\ compiled.status \in {"parsed", "used"}
    /\ compiled.err = ""
    /\ Count(compiled.definition, "(") = 3

\* the fact the words ground to under the bindings the compiled effects were applied with
LineFact(words) == JoinWith(<<compiled.bindings[RoleA.name].name>> \o words, <<" ">>)

\* C37: in a ternary effect (effect_true)(condition)(effect_false) the compiled
\* condition and branches carry the negated flag exactly where the author wrote `!`:
\* on the condition it negates the condition, on a branch it makes the branch a
\* delete, so that (E)!(C)() applies E exactly when C does not hold.
C37_TernaryNegation ==
    TernaryCompiled =>
        /\ Len(compiled.conditions) = 1
        /\ IsTernary(compiled.conditions[1])
        /\ compiled.conditions[1].condition.negated = Bang(compiled.definition, 2)
        /\ BranchNegated(compiled.conditions[1].effect_if_true) = Bang(compiled.definition, 1)
        /\ BranchNegated(compiled.conditions[1].effect_if_false) = Bang(compiled.definition, 3)
        /\ (compiled.status = "used" /\ compiled.definition = TernaryNotLine)
               => (LineFact(<<w_is, <<"s", "a", "d">>>>) \in facts
                      <=> LineFact(<<w_is, w_happy>>) \notin pre.facts)

(***************************************************************************)
(* Two runs with one seed: one of them also uses a grammar engine          *)
(***************************************************************************)
\* GrammarEngine(file_path), or GrammarEngine(file_path, random_seed=random_seed) when
\* a seed is given: the constructor seeds the random module of the process
run_constructs(run, grammar_definition, given, random_seed) ==
    [run EXCEPT !.grammar = GrammarEngine(grammar_definition, Corpora, TRUE, <<>>),
                !.random = seed_random(given, random_seed)]

\* Both runs call execute(1). The two runs are followed up to the first execute call
\* that records different Actions in them.
ExecuteInBoth ==
    /\ runs.a.err = "" /\ runs.b.err = ""
    /\ runs.a.engine.actions = runs.b.engine.actions
    /\ runs.calls < MaxCalls
    /\ \E a \in run_execute(runs.a, MayDraw(runs.stream, runs.a.random)) :
        \E b \in run_execute(runs.b, MayDrawSecond(a)) :
            /\ a.engine.k <= MaxDraws
            /\ b.engine.k <= MaxDraws
            /\ runs' = BothCalled(a, b)
    /\ SeededUnchanged

\* the second run constructs a grammar engine, with a seed or without one
SecondConstructs ==
    /\ runs.b.err = ""
    /\ runs.a.engine.actions = runs.b.engine.actions
    /\ runs.b.grammar.status = "none"
    /\ \E grammar_definition \in TwinGrammars, given \in BOOLEAN, random_seed \in Seeds :
           runs' = [runs EXCEPT !.b = run_constructs(@, grammar_definition, given, random_seed)]
    /\ SeededUnchanged

\* the second run calls generate
SecondGenerates ==
    /\ runs.b.err = ""
    /\ runs.a.engine.actions = runs.b.engine.actions
    /\ runs.b.grammar.status \notin {"none", "failed"}
    /\ runs.calls < MaxCalls
    /\ \E start_symbol_name \in StartSymbols :
        \E b \in run_generate(runs.b, start_symbol_name, MayDraw(runs.stream, runs.b.random)) :
            runs' = [runs EXCEPT !.b = [b EXCEPT !.known = {}],
                                 !.calls = @ + 1,
                                 !.stream = Known(@, runs.b, b)]
    /\ SeededUnchanged

NextShared == ExecuteInBoth \/ SecondConstructs \/ SecondGenerates

SpecShared == InitSeeded /\ [][NextShared]_vars

\* C38: the Actions a rule engine constructed with seed s produces do not depend on
\* the grammar engine: of two runs that construct the rule engine with the same seed
\* and make the same execute calls, the one that also constructs a grammar engine
\* (seeded or not) or calls its generate between them records the same Actions as
\* the one that does not.
C38_ActionsApartFromGrammar ==
    runs.a.engine.actions = runs.b.engine.actions

(***************************************************************************)
(* The state of a grammar engine after construction                        *)
(***************************************************************************)
\* C39: after a grammar engine is constructed with initial_state None or a dictionary
\* of string keys and string values, the empty dictionary included, its state is
\* defined, so that set_state, export_state and generate can be called: no call on a
\* constructed engine fails for want of the state attribute.
C39_StateDefined ==
    grammar.status # "failed" => (grammar.has_state /\ grammar.err # "AttributeError")

====
